---- MODULE Spec2Model ----
(***************************************************************************)
(* Link resolvers of AutoAttend (src/src/App.tsx): normalizeExternalUrl,   *)
(* parseGoogleMeet and parseWhatsAppGroupLink, with the platform's URL     *)
(* class they call, and the handlers of the App component that use them.   *)
(* A JavaScript string is a sequence of one-character strings, so that     *)
(* every index, slice and comparison of the code is a sequence operation   *)
(* here.                                                                   *)
(***************************************************************************)
EXTENDS Integers, Sequences, FiniteSets, TLC

VARIABLES input, pc, fn, res, alt, resAlt

\* The state of the App component (useState at App.tsx:510-549), the timers
\* syncNow has started and not yet seen fire, and the last URL given to window.open.
VARIABLES meetings, autoJoinAllNew, googleConnected, oauthModalOpen,
          calendarSyncEnabled, syncing, lastSyncedAt, syncTimers,
          whatsAppConnected, whatsAppGroupUrl, whatsAppError,
          addMeetingOpen, addMeetingForm, meetLink, meetParsed, meetLinkError,
          openedUrl

appVars == <<meetings, autoJoinAllNew, googleConnected, oauthModalOpen,
             calendarSyncEnabled, syncing, lastSyncedAt, syncTimers,
             whatsAppConnected, whatsAppGroupUrl, whatsAppError,
             addMeetingOpen, addMeetingForm, meetLink, meetParsed, meetLinkError,
             openedUrl>>

vars == <<input, pc, fn, res, alt, resAlt, appVars>>

(***************************************************************************)
(* Characters.                                                             *)
(***************************************************************************)
LowerSeq == <<"a","b","c","d","e","f","g","h","i","j","k","l","m",
              "n","o","p","q","r","s","t","u","v","w","x","y","z">>

UpperSeq == <<"A","B","C","D","E","F","G","H","I","J","K","L","M",
              "N","O","P","Q","R","S","T","U","V","W","X","Y","Z">>

DigitSeq == <<"0","1","2","3","4","5","6","7","8","9">>

Range(s) == {s[i] : i \in 1..Len(s)}

Lower == Range(LowerSeq)

Upper == Range(UpperSeq)

Digit == Range(DigitSeq)

Alpha == Lower \cup Upper

\* String.prototype.trim removes these (the white space of the inputs here).
WhiteSpace == {" ", "\t", "\n"}

ToLowerChar(c) ==
    IF c \in Upper THEN LowerSeq[CHOOSE i \in 1..26 : UpperSeq[i] = c] ELSE c

ToUpperChar(c) ==
    IF c \in Lower THEN UpperSeq[CHOOSE i \in 1..26 : LowerSeq[i] = c] ELSE c

(***************************************************************************)
(* String methods of the code.                                             *)
(***************************************************************************)
\* Index of the first element of s in set S, 0 when there is none.
FirstIndex(s, S) ==
    IF \E i \in 1..Len(s) : s[i] \in S
    THEN CHOOSE i \in 1..Len(s) : s[i] \in S /\ \A j \in 1..(i - 1) : s[j] \notin S
    ELSE 0

\* Index of the last element of s that is not in S, 0 when there is none.
LastIndexNotIn(s, S) ==
    IF \E i \in 1..Len(s) : s[i] \notin S
    THEN CHOOSE i \in 1..Len(s) : s[i] \notin S /\ \A j \in (i + 1)..Len(s) : s[j] \in S
    ELSE 0

FirstIndexNotIn(s, S) ==
    IF \E i \in 1..Len(s) : s[i] \notin S
    THEN CHOOSE i \in 1..Len(s) : s[i] \notin S /\ \A j \in 1..(i - 1) : s[j] \in S
    ELSE 0

From(s, i) == SubSeq(s, i, Len(s))

\* s.trim()
Trim(s) ==
    IF FirstIndexNotIn(s, WhiteSpace) = 0 THEN <<>>
    ELSE SubSeq(s, FirstIndexNotIn(s, WhiteSpace), LastIndexNotIn(s, WhiteSpace))

\* s.startsWith(p)
StartsWith(s, p) == Len(s) >= Len(p) /\ SubSeq(s, 1, Len(p)) = p

RECURSIVE ToLowerCase(_)
\* s.toLowerCase()
ToLowerCase(s) ==
    IF s = <<>> THEN <<>> ELSE <<ToLowerChar(Head(s))>> \o ToLowerCase(Tail(s))

RECURSIVE ToUpperCase(_)
\* s.toUpperCase()
ToUpperCase(s) ==
    IF s = <<>> THEN <<>> ELSE <<ToUpperChar(Head(s))>> \o ToUpperCase(Tail(s))

\* s.replace(/\/+$/, "")
StripTrailingSlashes(s) == SubSeq(s, 1, LastIndexNotIn(s, {"/"}))

RECURSIVE SplitOn(_, _)
\* s.split(d) for a delimiter in D: the pieces between delimiters, empty ones kept.
SplitOn(s, D) ==
    IF FirstIndex(s, D) = 0 THEN <<s>>
    ELSE <<SubSeq(s, 1, FirstIndex(s, D) - 1)>> \o SplitOn(From(s, FirstIndex(s, D) + 1), D)

(***************************************************************************)
(* String literals of the code.                                            *)
(***************************************************************************)
HttpPrefix == <<"h","t","t","p",":","/","/">>

HttpsPrefix == <<"h","t","t","p","s",":","/","/">>

MeetHost == <<"m","e","e","t",".","g","o","o","g","l","e",".","c","o","m">>

RedirectHost == <<"g",".","c","o">>

WhatsAppHost == <<"c","h","a","t",".","w","h","a","t","s","a","p","p",".","c","o","m">>

MeetSlash == <<"/","m","e","e","t","/">>

LookupSlash == <<"/","l","o","o","k","u","p","/">>

MeetDomainPrefix == MeetHost \o <<"/">>

RedirectDomainPrefix == RedirectHost \o MeetSlash

WhatsAppDomainPrefix == WhatsAppHost \o <<"/">>

MeetUrlBase == HttpsPrefix \o MeetHost

WhatsAppUrlBase == HttpsPrefix \o WhatsAppHost

(***************************************************************************)
(* The URL class (WHATWG URL Standard, basic URL parser without a base     *)
(* URL), as new URL(raw) at App.tsx:226 and :283 runs it.  The parser is   *)
(* modelled for the characters the inputs are made of: letters, digits,    *)
(* - _ . / \ : ? # @ % space and tab.  Hosts with percent escapes, IP      *)
(* literals and the file: scheme are not among the inputs.                 *)
(***************************************************************************)
SchemeChars == Alpha \cup Digit \cup {"+", "-", "."}

IsNotTabOrNewline(c) == c \notin {"\t", "\n"}

\* Leading and trailing C0 control or space stripped, then every tab and newline removed.
Preprocess(s) == SelectSeq(Trim(s), IsNotTabOrNewline)

\* Scheme start state and scheme state: the length of the scheme, 0 when s has none.
SchemeLen(s) ==
    IF /\ FirstIndex(s, {":"}) > 1
       /\ s[1] \in Alpha
       /\ \A j \in 2..(FirstIndex(s, {":"}) - 1) : s[j] \in SchemeChars
    THEN FirstIndex(s, {":"}) - 1
    ELSE 0

\* The special schemes (file: left out) with their default ports.
DefaultPort(scheme) ==
    CASE scheme = <<"h","t","t","p">> -> 80
      [] scheme = <<"h","t","t","p","s">> -> 443
      [] scheme = <<"f","t","p">> -> 21
      [] scheme = <<"w","s">> -> 80
      [] scheme = <<"w","s","s">> -> 443
      [] OTHER -> -1

IsSpecial(scheme) == DefaultPort(scheme) # -1

\* UTF-8 percent-encoding of one character.
PercentEncodeChar(c) ==
    CASE c = " " -> <<"%","2","0">>
      [] c = ":" -> <<"%","3","A">>
      [] c = "@" -> <<"%","4","0">>
      [] c = "\\" -> <<"%","5","C">>
      [] OTHER -> <<c>>

RECURSIVE PercentEncode(_, _)
\* s with every character of the percent-encode set enc encoded.
PercentEncode(s, enc) ==
    IF s = <<>> THEN <<>>
    ELSE (IF Head(s) \in enc THEN PercentEncodeChar(Head(s)) ELSE <<Head(s)>>)
         \o PercentEncode(Tail(s), enc)

\* The members of the standard's percent-encode sets among the input characters.
PathEncodeSet == {" "}

QueryEncodeSet == {" "}

FragmentEncodeSet == {" "}

UserinfoEncodeSet == {" ", ":", "@", "\\"}

\* Forbidden host code points, and the forbidden domain code points on top of them.
ForbiddenHost == {" ", "#", "/", ":", "?", "@", "\\", "\t", "\n"}

ForbiddenDomain == ForbiddenHost \cup {"%"}

IsSingleDot(seg) == ToLowerCase(seg) \in {<<".">>, <<"%","2","e">>}

IsDoubleDot(seg) ==
    ToLowerCase(seg) \in {<<".",".">>, <<".","%","2","e">>,
                          <<"%","2","e",".">>, <<"%","2","e","%","2","e">>}

RECURSIVE PathSegments(_, _, _)
\* Path state: the path after the raw segments segs[i..] are pushed onto acc.  A
\* double-dot segment shortens the path, a dot segment is dropped, and either one
\* leaves an empty last segment when it ends the path.
PathSegments(segs, i, acc) ==
    IF i > Len(segs) THEN acc
    ELSE LET seg == PercentEncode(segs[i], PathEncodeSet)
             last == i = Len(segs)
             popped == IF acc = <<>> THEN acc ELSE SubSeq(acc, 1, Len(acc) - 1)
         IN PathSegments(segs, i + 1,
                CASE IsDoubleDot(seg) -> (IF last THEN Append(popped, <<>>) ELSE popped)
                  [] IsSingleDot(seg) -> (IF last THEN Append(acc, <<>>) ELSE acc)
                  [] OTHER -> Append(acc, seg))

RECURSIVE JoinPath(_)
\* URL path serializer: "/" before every segment.
JoinPath(segs) ==
    IF segs = <<>> THEN <<>> ELSE <<"/">> \o Head(segs) \o JoinPath(Tail(segs))

RECURSIVE DigitsToNat(_, _)
DigitsToNat(s, acc) ==
    IF s = <<>> THEN acc
    ELSE DigitsToNat(Tail(s), 10 * acc + ((CHOOSE i \in 1..10 : DigitSeq[i] = Head(s)) - 1))

RECURSIVE NatToDigits(_)
NatToDigits(n) ==
    IF n < 10 THEN <<DigitSeq[n + 1]>> ELSE NatToDigits(n \div 10) \o <<DigitSeq[(n % 10) + 1]>>

MaxPort == 65535

URLFailure == [ok |-> FALSE]

\* The part of s before the first character of D (all of s when there is none).
Before(s, D) == IF FirstIndex(s, D) = 0 THEN s ELSE SubSeq(s, 1, FirstIndex(s, D) - 1)

\* The part of s from the first character of D on (empty when there is none).
FromFirst(s, D) == IF FirstIndex(s, D) = 0 THEN <<>> ELSE From(s, FirstIndex(s, D))

LastIndex(s, S) ==
    IF \E i \in 1..Len(s) : s[i] \in S
    THEN CHOOSE i \in 1..Len(s) : s[i] \in S /\ \A j \in (i + 1)..Len(s) : s[j] \notin S
    ELSE 0

\* Path start, path, query and fragment states on what follows the authority
\* (tail); the finished URL record.
URLTail(scheme, special, hasHost, user, pass, host, port, tail) ==
    LET slashes == IF special THEN {"/", "\\"} ELSE {"/"}
        hasPath == tail # <<>> /\ tail[1] \in slashes
        body == IF hasPath THEN From(tail, 2) ELSE tail
        rawPath == Before(body, {"?", "#"})
        segs == IF special \/ hasPath
                THEN PathSegments(SplitOn(rawPath, slashes), 1, <<>>)
                ELSE <<>>
        afterPath == FromFirst(body, {"?", "#"})
        hasQuery == afterPath # <<>> /\ afterPath[1] = "?"
        query == IF hasQuery THEN PercentEncode(Before(From(afterPath, 2), {"#"}), QueryEncodeSet)
                 ELSE <<>>
        fragPart == FromFirst(afterPath, {"#"})
        hasFragment == fragPart # <<>>
        fragment == IF hasFragment THEN PercentEncode(From(fragPart, 2), FragmentEncodeSet)
                    ELSE <<>>
    IN [ok |-> TRUE, scheme |-> scheme, hasHost |-> hasHost, username |-> user,
        password |-> pass, hostname |-> host, port |-> port,
        pathname |-> JoinPath(segs), hasQuery |-> hasQuery, query |-> query,
        hasFragment |-> hasFragment, fragment |-> fragment]

\* The code points that end the authority.
AuthorityEnd(special) == IF special THEN {"/", "\\", "?", "#"} ELSE {"/", "?", "#"}

\* Port state: the port of the URL once the host is accepted.
URLPort(scheme, special, user, pass, host, portStr, portNum, tail) ==
    IF \/ (\E i \in 1..Len(portStr) : portStr[i] \notin Digit)
       \/ (portStr # <<>> /\ portNum > MaxPort)
    THEN URLFailure
    ELSE URLTail(scheme, special, TRUE, user, pass, host,
                 IF portStr = <<>> \/ portNum = DefaultPort(scheme) THEN <<>>
                 ELSE NatToDigits(portNum),
                 tail)

\* Host state on hostport, what follows the credentials (hasAt: there was an @).
URLHost(scheme, special, user, pass, hasAt, hostport, rawHost, colon, portStr, tail) ==
    IF \/ (hasAt /\ hostport = <<>>)
       \/ (rawHost = <<>> /\ (special \/ colon # 0))
       \/ (\E i \in 1..Len(rawHost) :
              rawHost[i] \in (IF special THEN ForbiddenDomain ELSE ForbiddenHost))
    THEN URLFailure
    ELSE URLPort(scheme, special, user, pass,
                 IF special THEN ToLowerCase(rawHost) ELSE rawHost,
                 portStr, DigitsToNat(portStr, 0), tail)

\* The credentials creds (what precedes the last @) split into user and password.
URLCredentials(scheme, special, hasAt, creds, hostport, tail) ==
    URLHost(scheme, special,
            PercentEncode(Before(creds, {":"}), UserinfoEncodeSet),
            IF FirstIndex(creds, {":"}) = 0 THEN <<>>
            ELSE PercentEncode(From(creds, FirstIndex(creds, {":"}) + 1), UserinfoEncodeSet),
            hasAt, hostport, Before(hostport, {":"}), FirstIndex(hostport, {":"}),
            IF FirstIndex(hostport, {":"}) = 0 THEN <<>>
            ELSE From(hostport, FirstIndex(hostport, {":"}) + 1),
            tail)

\* The authority auth split at its last @ (at, 0 when it has none).
URLAuthoritySplit(scheme, special, auth, at, tail) ==
    URLCredentials(scheme, special, at # 0,
                   IF at = 0 THEN <<>> ELSE SubSeq(auth, 1, at - 1),
                   From(auth, at + 1), tail)

\* Authority, host and port states on rest, the input after the scheme's slashes.
URLAuthority(scheme, special, rest) ==
    URLAuthoritySplit(scheme, special, Before(rest, AuthorityEnd(special)),
                      LastIndex(Before(rest, AuthorityEnd(special)), {"@"}),
                      FromFirst(rest, AuthorityEnd(special)))

\* A URL without authority: t is the record of what follows the path of rest; a
\* rest that does not start with a slash is an opaque path, kept as written.
URLNoAuthority(rest, t) ==
    IF StartsWith(rest, <<"/">>) THEN t
    ELSE [t EXCEPT !.pathname = Before(rest, {"?", "#"})]

\* The states after the scheme: rest is the input after the scheme's colon.
URLAfterScheme(scheme, special, rest) ==
    IF special \/ StartsWith(rest, <<"/","/">>)
    THEN URLAuthority(scheme, special,
             IF special
             THEN \* special authority slashes and ignore-slashes states
                  (IF FirstIndexNotIn(rest, {"/", "\\"}) = 0 THEN <<>>
                   ELSE From(rest, FirstIndexNotIn(rest, {"/", "\\"})))
             ELSE From(rest, 3))
    ELSE URLNoAuthority(rest,
             URLTail(scheme, FALSE, FALSE, <<>>, <<>>, <<>>, <<>>,
                     IF StartsWith(rest, <<"/">>) THEN rest
                     ELSE FromFirst(rest, {"?", "#"})))

\* Scheme state: n is the length of the scheme of s, 0 when s has none.
URLScheme(s, n) ==
    IF n = 0 THEN URLFailure
    ELSE URLAfterScheme(ToLowerCase(SubSeq(s, 1, n)),
                        IsSpecial(ToLowerCase(SubSeq(s, 1, n))), From(s, n + 2))

\* The basic URL parser on the preprocessed input s.
URLParse(s) == URLScheme(s, SchemeLen(s))

\* new URL(raw): the URL record, or URLFailure where the constructor throws TypeError.
NewURL(raw) == URLParse(Preprocess(raw))

\* u.toString(): the URL serializer (the href).
URLToString(u) ==
    u.scheme \o <<":">>
    \o (IF u.hasHost
        THEN <<"/","/">>
             \o (IF u.username # <<>> \/ u.password # <<>>
                 THEN u.username
                      \o (IF u.password # <<>> THEN <<":">> \o u.password ELSE <<>>)
                      \o <<"@">>
                 ELSE <<>>)
             \o u.hostname
             \o (IF u.port # <<>> THEN <<":">> \o u.port ELSE <<>>)
        ELSE <<>>)
    \o u.pathname
    \o (IF u.hasQuery THEN <<"?">> \o u.query ELSE <<>>)
    \o (IF u.hasFragment THEN <<"#">> \o u.fragment ELSE <<>>)

(***************************************************************************)
(* The resolvers of src/src/App.tsx.                                       *)
(***************************************************************************)
\* The segment lengths of /^([a-z]{3}-[a-z]{4}-[a-z]{3})$/i.
MeetCodeShape == <<3, 4, 3>>

\* Mutant of IsMeetCode: the segment lengths are not tested.
IsMeetCodeAnyLength(s) ==
    /\ Len(SplitOn(s, {"-"})) = Len(MeetCodeShape)
    /\ \A k \in 1..Len(SplitOn(s, {"-"})) :
          /\ SplitOn(s, {"-"})[k] # <<>>
          /\ \A i \in 1..Len(SplitOn(s, {"-"})[k]) : SplitOn(s, {"-"})[k][i] \in Alpha

\* raw0.match(/^([a-z]{3}-[a-z]{4}-[a-z]{3})$/i): under the i flag [a-z] takes
\* both cases, and $ is the end of the string.
IsMeetCode(s) ==
    LET segs == SplitOn(s, {"-"})
    IN /\ Len(segs) = Len(MeetCodeShape)
       /\ \A k \in 1..Len(segs) :
             /\ Len(segs[k]) = MeetCodeShape[k]
             /\ \A i \in 1..Len(segs[k]) : segs[k][i] \in Alpha

\* path.match(/^\/lookup\/([^/]+)$/i)
IsLookupPath(path) ==
    /\ Len(path) > Len(LookupSlash)
    /\ ToLowerCase(SubSeq(path, 1, Len(LookupSlash))) = LookupSlash
    /\ \A i \in (Len(LookupSlash) + 1)..Len(path) : path[i] # "/"

\* path.match(/^\/([a-z]{3}-[a-z]{4}-[a-z]{3})$/i)
IsCodePath(path) == StartsWith(path, <<"/">>) /\ IsMeetCode(From(path, 2))

InviteTokenMinLen == 10

\* Mutant of IsInviteToken: the length bound is off by one.
IsInviteTokenOverMin(code) ==
    /\ Len(code) > InviteTokenMinLen
    /\ \A i \in 1..Len(code) : code[i] \in (Alpha \cup Digit \cup {"_", "-"})

\* /^[A-Za-z0-9_-]{10,}$/.test(code)
IsInviteToken(code) ==
    /\ Len(code) >= InviteTokenMinLen
    /\ \A i \in 1..Len(code) : code[i] \in (Alpha \cup Digit \cup {"_", "-"})

\* The values a resolver call ends with: null, or an exception leaving the call.
Null == [kind |-> "null"]

Thrown == [kind |-> "throw"]

\* Mutant of CodeResult: the url is built on the redirect host.
CodeResultOnRedirectHost(code) ==
    [kind |-> "code", code |-> code, url |-> HttpsPrefix \o RedirectDomainPrefix \o code]

\* { kind: "code", code, url: `https://meet.google.com/${code}` }
CodeResult(code) == [kind |-> "code", code |-> code, url |-> MeetUrlBase \o <<"/">> \o code]

\* Mutant of LookupResult: the token is lowercased like a meeting code.
LookupResultLowercased(token) ==
    [kind |-> "lookup", token |-> ToLowerCase(token),
     url |-> MeetUrlBase \o LookupSlash \o ToLowerCase(token)]

\* { kind: "lookup", token, url: `https://meet.google.com/lookup/${token}` }
LookupResult(token) ==
    [kind |-> "lookup", token |-> token, url |-> MeetUrlBase \o LookupSlash \o token]

\* Mutant of PathResult: the result also carries the payload of a Lookup.
PathResultWithToken(path, url) ==
    [kind |-> "url", path |-> path, token |-> path, url |-> url]

\* { kind: "url", path, url }
PathResult(path, url) == [kind |-> "url", path |-> path, url |-> url]

\* Mutant of normalizeExternalUrl: https:// is put in front of every input.
normalizeExternalUrlAlwaysPrepends(raw) ==
    IF Trim(raw) = <<>> THEN Trim(raw) ELSE HttpsPrefix \o Trim(raw)

\* Mutant of normalizeExternalUrl: only https:// counts as a scheme.
normalizeExternalUrlHttpsOnly(raw) ==
    IF Trim(raw) = <<>> THEN Trim(raw)
    ELSE IF StartsWith(Trim(raw), HttpsPrefix) THEN Trim(raw)
    ELSE HttpsPrefix \o Trim(raw)

\* function normalizeExternalUrl(raw)
normalizeExternalUrl(raw) ==
    LET v == Trim(raw)
    IN IF v = <<>> THEN v
       ELSE IF StartsWith(v, HttpPrefix) \/ StartsWith(v, HttpsPrefix) THEN v
       ELSE HttpsPrefix \o v

\* Mutant of MeetSchemeCompletion: the g.co/meet/ prefix is forgotten.
MeetSchemeCompletionPrimaryOnly(raw0) ==
    IF StartsWith(raw0, HttpPrefix) \/ StartsWith(raw0, HttpsPrefix) THEN raw0
    ELSE IF StartsWith(raw0, MeetDomainPrefix) THEN HttpsPrefix \o raw0
    ELSE raw0

\* parseGoogleMeet: "Normalize common inputs without scheme."
MeetSchemeCompletion(raw0) ==
    IF StartsWith(raw0, HttpPrefix) \/ StartsWith(raw0, HttpsPrefix) THEN raw0
    ELSE IF StartsWith(raw0, MeetDomainPrefix) \/ StartsWith(raw0, RedirectDomainPrefix)
         THEN HttpsPrefix \o raw0
         ELSE raw0

\* parseGoogleMeet: is u a g.co/meet/ redirect link?
IsRedirectLink(u) ==
    u.hostname = RedirectHost /\ StartsWith(ToLowerCase(u.pathname), MeetSlash)

\* Mutant of MeetRedirectBranch: the url of a Path result is rebuilt on the
\* primary host.
MeetRedirectBranchRewritesHost(u) ==
    IF IsMeetCode(StripTrailingSlashes(From(u.pathname, Len(MeetSlash) + 1)))
    THEN CodeResult(ToLowerCase(StripTrailingSlashes(From(u.pathname, Len(MeetSlash) + 1))))
    ELSE IF StripTrailingSlashes(From(u.pathname, Len(MeetSlash) + 1)) # <<>>
         THEN PathResult(MeetSlash \o StripTrailingSlashes(From(u.pathname, Len(MeetSlash) + 1)),
                         MeetUrlBase \o MeetSlash
                             \o StripTrailingSlashes(From(u.pathname, Len(MeetSlash) + 1)))
         ELSE Null

\* Mutant of MeetRedirectBranch: the trailing slashes are not stripped.
MeetRedirectBranchKeepsSlashes(u) ==
    IF IsMeetCode(From(u.pathname, Len(MeetSlash) + 1))
    THEN CodeResult(ToLowerCase(From(u.pathname, Len(MeetSlash) + 1)))
    ELSE IF From(u.pathname, Len(MeetSlash) + 1) # <<>>
         THEN PathResult(MeetSlash \o From(u.pathname, Len(MeetSlash) + 1), URLToString(u))
         ELSE Null

\* parseGoogleMeet: "g.co/meet/<code> redirect links"
MeetRedirectBranch(u) ==
    LET rest == StripTrailingSlashes(From(u.pathname, Len(MeetSlash) + 1))
    IN IF IsMeetCode(rest) THEN CodeResult(ToLowerCase(rest))
       ELSE IF rest # <<>> THEN PathResult(MeetSlash \o rest, URLToString(u))
       ELSE Null

\* Mutant of MeetPrimaryBranch: the trailing slashes of the path are kept.
MeetPrimaryBranchKeepsSlashes(u) ==
    IF IsLookupPath(u.pathname)
    THEN LookupResult(From(u.pathname, Len(LookupSlash) + 1))
    ELSE IF IsCodePath(u.pathname)
         THEN CodeResult(ToLowerCase(From(u.pathname, 2)))
         ELSE IF u.pathname # <<>> /\ u.pathname # <<"/">>
              THEN PathResult(u.pathname, MeetUrlBase \o u.pathname)
              ELSE Null

\* Mutant of MeetPrimaryBranch: the query string is carried into the url of a
\* Path result.
MeetPrimaryBranchKeepsQuery(u) ==
    IF IsLookupPath(StripTrailingSlashes(u.pathname))
    THEN LookupResult(From(StripTrailingSlashes(u.pathname), Len(LookupSlash) + 1))
    ELSE IF IsCodePath(StripTrailingSlashes(u.pathname))
         THEN CodeResult(ToLowerCase(From(StripTrailingSlashes(u.pathname), 2)))
         ELSE IF StripTrailingSlashes(u.pathname) # <<>>
                 /\ StripTrailingSlashes(u.pathname) # <<"/">>
              THEN PathResult(StripTrailingSlashes(u.pathname),
                              MeetUrlBase \o StripTrailingSlashes(u.pathname)
                                  \o (IF u.hasQuery THEN <<"?">> \o u.query ELSE <<>>))
              ELSE Null

\* Mutant of MeetPrimaryBranch: the url of a Path result is the URL as given.
MeetPrimaryBranchKeepsHref(u) ==
    IF IsLookupPath(StripTrailingSlashes(u.pathname))
    THEN LookupResult(From(StripTrailingSlashes(u.pathname), Len(LookupSlash) + 1))
    ELSE IF IsCodePath(StripTrailingSlashes(u.pathname))
         THEN CodeResult(ToLowerCase(From(StripTrailingSlashes(u.pathname), 2)))
         ELSE IF StripTrailingSlashes(u.pathname) # <<>>
                 /\ StripTrailingSlashes(u.pathname) # <<"/">>
              THEN PathResult(StripTrailingSlashes(u.pathname), URLToString(u))
              ELSE Null

\* parseGoogleMeet: "Primary host", after the host test
MeetPrimaryBranch(u) ==
    LET path == StripTrailingSlashes(u.pathname)
    IN IF IsLookupPath(path) THEN LookupResult(From(path, Len(LookupSlash) + 1))
       ELSE IF IsCodePath(path) THEN CodeResult(ToLowerCase(From(path, 2)))
       ELSE IF path # <<>> /\ path # <<"/">>
            THEN PathResult(path, MeetUrlBase \o path)
            ELSE Null

\* parseGoogleMeet: the try block after u = new URL(raw), u.ok false where it threw.
MeetTryParsed(u) ==
    IF ~u.ok THEN Thrown
    ELSE IF IsRedirectLink(u) THEN MeetRedirectBranch(u)
    ELSE IF u.hostname # MeetHost THEN Null
    ELSE MeetPrimaryBranch(u)

\* Mutant of MeetTry: the host of a URL that is no redirect link is not tested.
MeetTryAnyHost(raw) ==
    IF ~NewURL(raw).ok THEN Thrown
    ELSE IF IsRedirectLink(NewURL(raw)) THEN MeetRedirectBranch(NewURL(raw))
    ELSE MeetPrimaryBranch(NewURL(raw))

\* parseGoogleMeet: the body of the try block; Thrown where new URL(raw) throws.
MeetTry(raw) == MeetTryParsed(NewURL(raw))

\* Mutant of MeetCatch: the exception of new URL is not caught.
MeetCatchRethrows(r) == r

\* parseGoogleMeet: catch { return null; }
MeetCatch(r) == IF r.kind = "throw" THEN Null ELSE r

\* Mutant of parseGoogleMeet: the bare code is returned as typed.
parseGoogleMeetKeepsCase(inp) ==
    IF Trim(inp) = <<>> THEN Null
    ELSE IF IsMeetCode(Trim(inp)) THEN CodeResult(Trim(inp))
    ELSE MeetCatch(MeetTry(MeetSchemeCompletion(Trim(inp))))

\* function parseGoogleMeet(input)
parseGoogleMeet(inp) ==
    LET raw0 == Trim(inp)
    IN IF raw0 = <<>> THEN Null
       ELSE IF IsMeetCode(raw0) THEN CodeResult(ToLowerCase(raw0))
       ELSE MeetCatch(MeetTry(MeetSchemeCompletion(raw0)))

\* Mutant of WhatsAppSchemeCompletion: every input without http(s):// is completed.
WhatsAppSchemeCompletionAlways(raw0) ==
    IF StartsWith(raw0, HttpPrefix) \/ StartsWith(raw0, HttpsPrefix) THEN raw0
    ELSE HttpsPrefix \o raw0

\* parseWhatsAppGroupLink: the scheme completion of raw0
WhatsAppSchemeCompletion(raw0) ==
    IF StartsWith(raw0, HttpPrefix) \/ StartsWith(raw0, HttpsPrefix) THEN raw0
    ELSE IF StartsWith(raw0, WhatsAppDomainPrefix) THEN HttpsPrefix \o raw0
    ELSE raw0

IsNonEmpty(s) == s # <<>>

\* Mutant of FirstPathSegment: the last non-empty segment is taken.
LastPathSegment(pathname) ==
    IF SelectSeq(SplitOn(pathname, {"/"}), IsNonEmpty) = <<>> THEN <<>>
    ELSE SelectSeq(SplitOn(pathname, {"/"}), IsNonEmpty)[
             Len(SelectSeq(SplitOn(pathname, {"/"}), IsNonEmpty))]

\* u.pathname.split("/").filter(Boolean)[0], the empty string standing for undefined.
FirstPathSegment(pathname) ==
    LET kept == SelectSeq(SplitOn(pathname, {"/"}), IsNonEmpty)
    IN IF kept = <<>> THEN <<>> ELSE kept[1]

\* Mutant of InviteResult: the link is built under an /invite/ path.
InviteResultUnderInvite(code) ==
    [kind |-> "invite",
     url |-> WhatsAppUrlBase \o <<"/","i","n","v","i","t","e","/">> \o code]

\* The string parseWhatsAppGroupLink returns, as a result record.
InviteResult(code) == [kind |-> "invite", url |-> WhatsAppUrlBase \o <<"/">> \o code]

\* parseWhatsAppGroupLink: the tests on code, the first segment of the path.
WhatsAppTryCode(code) ==
    IF code = <<>> THEN Null
    ELSE IF ~IsInviteToken(code) THEN Null
    ELSE InviteResult(code)

\* parseWhatsAppGroupLink: the try block after u = new URL(raw), u.ok false where
\* it threw.
WhatsAppTryParsed(u) ==
    IF ~u.ok THEN Thrown
    ELSE IF u.hostname # WhatsAppHost THEN Null
    ELSE WhatsAppTryCode(FirstPathSegment(u.pathname))

\* Mutant of WhatsAppTry: a host that ends with chat.whatsapp.com is accepted.
WhatsAppTryHostSuffix(raw) ==
    IF ~NewURL(raw).ok THEN Thrown
    ELSE IF Len(NewURL(raw).hostname) < Len(WhatsAppHost)
            \/ From(NewURL(raw).hostname,
                    Len(NewURL(raw).hostname) - Len(WhatsAppHost) + 1) # WhatsAppHost
         THEN Null
    ELSE IF FirstPathSegment(NewURL(raw).pathname) = <<>> THEN Null
    ELSE IF ~IsInviteToken(FirstPathSegment(NewURL(raw).pathname)) THEN Null
    ELSE InviteResult(FirstPathSegment(NewURL(raw).pathname))

\* Mutant of WhatsAppTry: the parsed URL is returned as it was given.
WhatsAppTryReturnsHref(raw) ==
    IF ~NewURL(raw).ok THEN Thrown
    ELSE IF NewURL(raw).hostname # WhatsAppHost THEN Null
    ELSE IF FirstPathSegment(NewURL(raw).pathname) = <<>> THEN Null
    ELSE IF ~IsInviteToken(FirstPathSegment(NewURL(raw).pathname)) THEN Null
    ELSE [kind |-> "invite", url |-> URLToString(NewURL(raw))]

\* parseWhatsAppGroupLink: the body of the try block.
WhatsAppTry(raw) == WhatsAppTryParsed(NewURL(raw))

\* parseWhatsAppGroupLink: catch { return null; }
WhatsAppCatch(r) == IF r.kind = "throw" THEN Null ELSE r

\* Mutant of parseWhatsAppGroupLink: the input is not trimmed.
parseWhatsAppGroupLinkUntrimmed(inp) ==
    IF inp = <<>> THEN Null
    ELSE WhatsAppCatch(WhatsAppTry(WhatsAppSchemeCompletion(inp)))

\* function parseWhatsAppGroupLink(input)
parseWhatsAppGroupLink(inp) ==
    LET raw0 == Trim(inp)
    IN IF raw0 = <<>> THEN Null
       ELSE WhatsAppCatch(WhatsAppTry(WhatsAppSchemeCompletion(raw0)))

(***************************************************************************)
(* The inputs a caller hands to the resolvers: what users paste into the   *)
(* link fields.  Each family is a product of parts, so that every branch   *)
(* of the resolvers and of the URL parser is taken.                        *)
(***************************************************************************)
\* Most white space around an input.
MaxPad == 1

\* Most slashes after a path.
MaxSlashes == 2

\* Longest invite token tried (the shortest is one short of the grammar's minimum).
MaxTokenLen == 11

\* How far a segment of a tried meeting code may be from the grammar's length.
ShapeSlack == 1

Pads == {SubSeq(<<" ", "\t", " ", "\t">>, 1, n) : n \in 0..MaxPad}

Slashes(n) == SubSeq(<<"/","/","/","/","/","/">>, 1, n)

Token(n) == SubSeq(<<"A","b","C","d","E","f","G","h","I","j","1","2","3","4","_","-","x","y","z","Q","R","S">>, 1, n)

Code1 == <<"a","b","c","-","d","e","f","g","-","h","i","j">>

CodeForms == {Code1, ToUpperCase(Code1), <<"A","b","c","-","d","E","F","g","-","h","I","j">>}

\* Three hyphen-joined runs of letters, of lengths a, b and c.
ShapedCode(a, b, c) ==
    SubSeq(LowerSeq, 1, a) \o <<"-">> \o SubSeq(LowerSeq, 11, 10 + b)
    \o <<"-">> \o SubSeq(LowerSeq, 21, 20 + c)

ShapedCodes ==
    {ShapedCode(a, b, c) :
        a \in (MeetCodeShape[1] - ShapeSlack)..(MeetCodeShape[1] + ShapeSlack),
        b \in (MeetCodeShape[2] - ShapeSlack)..(MeetCodeShape[2] + ShapeSlack),
        c \in (MeetCodeShape[3] - ShapeSlack)..(MeetCodeShape[3] + ShapeSlack)}

NotLinks ==
    {<<>>,
    <<"n","o","t"," ","a"," ","l","i","n","k">>,
    <<"m","e","e","t",".","g","o","o","g","l","e",".","c","o","m">>,
    <<"g",".","c","o","/","m","e","e","t">>,
    <<"a","b","c","-","d","e","f","g","-","h","i","j","-","k","l","m">>,
    <<"a","b","c","-","d","3","f","g","-","h","i","j">>,
    <<"a","b","c","_","d","e","f","g","_","h","i","j">>,
    <<"a","b","c","-","d","e","f","g","-","h","i","j","/">>,
    <<"a","b","c","-","d","e","\t","f","g","-","h","i","j">>,
    <<"z","o","o","m",".","u","s","/","a","b","c","-","d","e","f","g","-","h","i","j">>,
    <<"m","a","i","l","t","o",":","a","b","c","-","d","e","f","g","-","h","i","j">>,
    <<"f","o","o",":","/","a","b","c","-","d","e","f","g","-","h","i","j">>}

BareInputs ==
    {a \o x \o b :
        a \in Pads, b \in Pads,
        x \in CodeForms \cup ShapedCodes \cup {ToUpperCase(c) : c \in ShapedCodes}
              \cup NotLinks}

MeetSchemes == {<<>>,
               <<"h","t","t","p","s",":","/","/">>,
               <<"h","t","t","p",":","/","/">>,
               <<"H","T","T","P","S",":","/","/">>,
               <<"f","o","o",":","/","/">>,
               <<"h","t","t","p","s",":">>}

MeetPaths ==
    {<<"/">> \o c : c \in CodeForms} \cup
    {<<>>,
    <<"/","l","o","o","k","u","p","/","x","y","z","1","2","3">>,
    <<"/","L","O","O","K","U","P","/","X","y","Z">>,
    <<"/","l","o","o","k","u","p">>,
    <<"/","l","o","o","k","u","p","/","a","/","b">>,
    <<"/","l","o","o","k","u","p","/","a","\\","b">>,
    <<"/","l","o","o","k","u","p","/","a","b","c","-","d","e","f","g","-","h","i","j">>,
    <<"/","f","o","o">>,
    <<"/","f","o","o","/","b","a","r">>,
    <<"/","a","\\","b">>,
    <<"/","a"," ","b">>,
    <<"/","f","o","o","/",".",".">>,
    <<"/","f","o","o","/",".",".","/","a","b","c","-","d","e","f","g","-","h","i","j">>,
    <<"/","%","2","E","%","2","e","/","x">>,
    <<"/",".","/","a","b","c","-","d","e","f","g","-","h","i","j">>,
    <<"/","/","a","b","c","-","d","e","f","g","-","h","i","j">>,
    <<"/","a","b","-","c","d","e","f","-","g","h","i">>,
    <<"/","a","b","c","-","d","e","f","g","-","h","i","j","/","x">>,
    <<"/","m","e","e","t","/","a","b","c","-","d","e","f","g","-","h","i","j">>,
    <<"/","m","e","e","t","/","A","B","C","-","D","E","F","G","-","H","I","J">>,
    <<"/","M","E","E","T","/","A","b","c","-","d","E","F","g","-","h","I","j">>,
    <<"/","m","e","e","t","/","x","y","z">>,
    <<"/","M","E","E","T","/","X","y","z">>,
    <<"/","m","e","e","t">>,
    <<"/","m","e","e","t","/","/","x">>,
    <<"/","m","e","e","t","/","x","\\","y">>,
    <<"/","m","e","e","t","/","x"," ","y">>,
    <<"/","m","e","e","t","/",".",".","/","a","b","c","-","d","e","f","g","-","h","i","j">>,
    <<"/","m","e","e","t","/","a","b","-","c","d","e","f","-","g","h","i">>}

Authorities ==
    {<<"m","e","e","t",".","g","o","o","g","l","e",".","c","o","m">>,
    <<"g",".","c","o">>,
    <<"M","E","E","T",".","G","o","o","g","l","e",".","c","o","m">>,
    <<"G",".","C","O">>,
    <<"e","v","i","l",".","c","o","m">>,
    <<"m","e","e","t",".","g","o","o","g","l","e",".","c","o","m",".","e","v","i","l",".","c","o","m">>,
    <<"u","s","e","r","@","m","e","e","t",".","g","o","o","g","l","e",".","c","o","m">>,
    <<"u","s","e","r",":","p"," ","w","@","g",".","c","o">>,
    <<"m","e","e","t",".","g","o","o","g","l","e",".","c","o","m","@","e","v","i","l",".","c","o","m">>,
    <<"m","e","e","t",".","g","o","o","g","l","e",".","c","o","m",":","4","4","3">>,
    <<"m","e","e","t",".","g","o","o","g","l","e",".","c","o","m",":","8","0","8","0">>,
    <<"g",".","c","o",":","0","0","8","0">>,
    <<"m","e","e","t",".","g","o","o","g","l","e",".","c","o","m",":","x">>,
    <<"g",".","c","o",":","6","5","5","3","6">>,
    <<>>,
    <<"@","g",".","c","o">>,
    <<"u","s","e","r","@">>,
    <<"m","e","e","t"," ","g","o","o","g","l","e",".","c","o","m">>,
    <<"m","e","e","t",".","g","o","o","g","l","e",".","c","o","m",".">>}

Suffixes == {<<"?","q","=","1">>,
             <<"#","f","r","a","g">>,
             <<"?","a"," ","b","#","c"," ","d">>,
             <<"?">>}

CoreMeetInputs ==
    {s \o h \o p \o Slashes(k) :
        s \in MeetSchemes, h \in {MeetHost, RedirectHost}, p \in MeetPaths,
        k \in 0..MaxSlashes}

AuthorityInputs ==
    {s \o a \o p :
        s \in {<<>>,
               <<"h","t","t","p","s",":","/","/">>,
               <<"f","o","o",":","/","/">>},
        a \in Authorities,
        p \in {<<>>,
               <<"/","a","b","c","-","d","e","f","g","-","h","i","j">>,
               <<"/","m","e","e","t","/","x","y","z">>,
               <<"/","f","o","o">>,
               <<"/","A","b","C","d","E","f","G","h","I","j","1","2","3","4">>}}

SuffixInputs ==
    {s \o h \o p \o Slashes(k) \o x :
        s \in {<<>>, HttpsPrefix, HttpPrefix},
        h \in {MeetHost, RedirectHost, WhatsAppHost},
        p \in {<<>>,
               <<"/","a","b","c","-","d","e","f","g","-","h","i","j">>,
               <<"/","l","o","o","k","u","p","/","T","o","k">>,
               <<"/","f","o","o">>,
               <<"/","m","e","e","t","/","A","B","C","-","d","e","f","g","-","h","i","j">>,
               <<"/","m","e","e","t","/","x","y","z">>,
               <<"/","A","b","C","d","E","f","G","h","I","j">>},
        k \in 0..MaxSlashes, x \in Suffixes}

PaddedInputs ==
    {a \o x \o b :
        a \in Pads, b \in Pads,
        x \in {<<"h","t","t","p","s",":","/","/","m","e","e","t",".","g","o","o","g","l","e",".","c","o","m","/","a","b","c","-","d","e","f","g","-","h","i","j">>,
               <<"m","e","e","t",".","g","o","o","g","l","e",".","c","o","m","/","l","o","o","k","u","p","/","T","o","k">>,
               <<"g",".","c","o","/","m","e","e","t","/","x","y","z">>,
               <<"h","t","t","p",":","/","/","g",".","c","o","/","m","e","e","t","/","a","b","c","-","d","e","f","g","-","h","i","j">>,
               <<"c","h","a","t",".","w","h","a","t","s","a","p","p",".","c","o","m","/","A","b","C","d","E","f","G","h","I","j","1","2","3","4">>,
               <<"h","t","t","p","s",":","/","/","c","h","a","t",".","w","h","a","t","s","a","p","p",".","c","o","m","/","A","b","C","d","E","f","G","h","I","j">>}}

WhatsAppPaths ==
    {<<"/">> \o Token(n) : n \in (InviteTokenMinLen - 1)..MaxTokenLen} \cup
    {<<>>,
    <<"/","s","h","o","r","t">>,
    <<"/","A","b","C","d",".","f","G","h","I","j">>,
    <<"/","A","b","C","d","%","f","G","h","I","j">>,
    <<"/","A","b","C","d"," ","f","G","h","I","j">>,
    <<"/","A","b","_","C","d","-","E","f","G","h">>,
    <<"/","/","A","b","C","d","E","f","G","h","I","j">>,
    <<"/","A","b","C","d","E","f","G","h","I","j","/","e","x","t","r","a">>,
    <<"/","A","b","C","d","E","f","G","h","I","j","/",".",".">>,
    <<"/","x","/","A","b","C","d","E","f","G","h","I","j">>,
    <<"/",".",".","/","A","b","C","d","E","f","G","h","I","j">>,
    <<"/","A","b","C","d","E","f","G","h","I","j","\\","x">>,
    <<"/","i","n","v","i","t","e","/","A","b","C","d","E","f","G","h","I","j","1","2","3","4">>}

WhatsAppAuthorities ==
    {<<"c","h","a","t",".","w","h","a","t","s","a","p","p",".","c","o","m">>,
    <<"C","h","a","t",".","W","h","a","t","s","A","p","p",".","c","o","m">>,
    <<"w","e","b",".","c","h","a","t",".","w","h","a","t","s","a","p","p",".","c","o","m">>,
    <<"w","h","a","t","s","a","p","p",".","c","o","m">>,
    <<"c","h","a","t",".","w","h","a","t","s","a","p","p",".","c","o","m",":","4","4","3">>,
    <<"u","@","c","h","a","t",".","w","h","a","t","s","a","p","p",".","c","o","m">>,
    <<"c","h","a","t",".","w","h","a","t","s","a","p","p",".","c","o","m",".","e","v","i","l",".","c","o","m">>}

WhatsAppInputs ==
    {s \o h \o p \o Slashes(k) :
        s \in {<<>>,
               <<"h","t","t","p","s",":","/","/">>,
               <<"h","t","t","p",":","/","/">>,
               <<"f","o","o",":","/","/">>},
        h \in WhatsAppAuthorities, p \in WhatsAppPaths, k \in 0..MaxSlashes}

Inputs == BareInputs \cup CoreMeetInputs \cup AuthorityInputs \cup SuffixInputs
          \cup PaddedInputs \cup WhatsAppInputs

\* What a second call is given after the first: the tails of an invite link.
Tails == {<<"/">>,
         <<"/","/">>,
         <<"/","m","o","r","e">>,
         <<"/","m","o","r","e","/","x">>,
         <<"?","q","=","1">>,
         <<"#","f","r","a","g">>,
         <<"/",".",".">>}

(***************************************************************************)
(* The App component.  Its state is the useState values the handlers of    *)
(* the integrations, automations and dashboard views read and write.  The  *)
(* toast, the view, the signed-in user and the display labels of a meeting *)
(* (date, time, duration, participants) are shown but never read back by   *)
(* a handler, and are left out.                                            *)
(***************************************************************************)
\* An optional string that is not there (undefined), and a null error message.
Absent == <<"undefined">>

NoError == "null"

WhatsAppErrorText == "Enter a valid WhatsApp group invite link (chat.whatsapp.com/<inviteCode>)."

MeetLinkErrorText == "Please enter a valid Google Meet link or code (e.g., abc-defg-hij, meet.google.com/abc-defg-hij, or meet.google.com/lookup/<token>)."

\* A Meeting (type Meeting), without its display labels.
Meeting(id, title, platform, status, autoJoin, joinUrl, meetUrl) ==
    [id |-> id, title |-> title, platform |-> platform, status |-> status,
     autoJoin |-> autoJoin, joinUrl |-> joinUrl, meetUrl |-> meetUrl]

initialMeetings ==
    <<Meeting("m_001", <<"G","D","G"," ","C","a","m","p","u","s"," ","W","e","e","k","l","y"," ","B","r","i","e","f">>, "Google Meet", "upcoming", TRUE,
              MeetUrlBase \o <<"/","a","b","c","-","d","e","f","g","-","h","i","j">>, MeetUrlBase \o <<"/","a","b","c","-","d","e","f","g","-","h","i","j">>),
      Meeting("m_002", <<"S","t","a","r","t","u","p"," ","P","i","t","c","h"," ","P","r","a","c","t","i","c","e">>, "Google Meet", "upcoming", FALSE,
              MeetUrlBase \o <<"/","k","l","n","-","m","n","o","p","-","q","r","s">>, MeetUrlBase \o <<"/","k","l","n","-","m","n","o","p","-","q","r","s">>),
      Meeting("m_003", <<"D","e","v","A","r","c"," ","W","o","r","k","s","h","o","p",":"," ","I","n","t","r","o"," ","t","o"," ","A","I">>, "Zoom", "upcoming", TRUE,
              <<"h","t","t","p","s",":","/","/","z","o","o","m",".","u","s","/","j","/","1","2","3","4","5","6","7","8","9","0">>, Absent),
      Meeting("m_004", <<"P","r","o","d","u","c","t"," ","T","e","a","m"," ","S","y","n","c">>, "Google Meet", "completed", TRUE,
              MeetUrlBase \o <<"/","t","u","v","-","w","x","y","z","-","a","a","a">>, MeetUrlBase \o <<"/","t","u","v","-","w","x","y","z","-","a","a","a">>),
      Meeting("m_005", <<"M","a","r","k","e","t","i","n","g"," ","R","e","v","i","e","w">>, "Teams", "completed", FALSE,
              <<"h","t","t","p","s",":","/","/","t","e","a","m","s",".","m","i","c","r","o","s","o","f","t",".","c","o","m","/","l","/","m","e","e","t","u","p","-","j","o","i","n","/","E","X","A","M","P","L","E">>, Absent)>>

\* The meetings the timer of syncNow builds, with the auto-join default its closure holds.
inbound(autoJoinDefault) ==
    <<Meeting("gcal_101", <<"G","o","o","g","l","e"," ","M","e","e","t",":"," ","A","I"," ","S","t","u","d","y"," ","G","r","o","u","p">>, "Google Meet", "upcoming", autoJoinDefault,
              MeetUrlBase \o <<"/","x","y","z","-","a","b","c","d","-","e","f","g">>, MeetUrlBase \o <<"/","x","y","z","-","a","b","c","d","-","e","f","g">>),
      Meeting("gcal_102", <<"G","o","o","g","l","e"," ","M","e","e","t",":"," ","O","f","f","i","c","e"," ","H","o","u","r","s">>, "Google Meet", "upcoming", autoJoinDefault,
              MeetUrlBase \o <<"/","p","q","r","-","s","t","u","v","-","w","x","y">>, MeetUrlBase \o <<"/","p","q","r","-","s","t","u","v","-","w","x","y">>)>>

\* The clock: today and the time of day of new Date() and Date.now(), as the digits
\* of yyyy-mm-dd and of hh:mm.
Today == 20261104

TimeOfDay == 930

\* toDateInputValue(d) and toTimeInputValue(d) of the next full hour.
NextHourDate == <<"2","0","2","6","-","1","1","-","0","4">>

NextHourTime == <<"1","0",":","0","0">>

\* function defaultAddMeetingForm(autoJoinDefault), without durationMins and participants.
defaultAddMeetingForm(autoJoinDefault) ==
    [title |-> <<>>, platform |-> "Google Meet", link |-> <<>>,
     date |-> NextHourDate, time |-> NextHourTime, autoJoin |-> autoJoinDefault]

\* The last moment lastSyncedAt is followed to; it starts at 0, two minutes before
\* the component is built.
MaxTime == 1

\* The state after the first render of App.
AppInit ==
    /\ meetings = initialMeetings
    /\ autoJoinAllNew = TRUE
    /\ googleConnected = TRUE
    /\ oauthModalOpen = FALSE
    /\ calendarSyncEnabled = TRUE
    /\ syncing = FALSE
    /\ lastSyncedAt = 0
    /\ syncTimers = <<>>
    /\ whatsAppConnected = FALSE
    /\ whatsAppGroupUrl = <<>>
    /\ whatsAppError = NoError
    /\ addMeetingOpen = FALSE
    /\ addMeetingForm = defaultAddMeetingForm(TRUE)
    /\ meetLink = <<>>
    /\ meetParsed = Null
    /\ meetLinkError = NoError
    /\ openedUrl = Absent

(***************************************************************************)
(* The calls.  A caller picks an input and calls one resolver (pc "done"); *)
(* it may then call the same resolver on a second input alt made from the  *)
(* first input or from the first result.                                   *)
(***************************************************************************)
\* The 3-4-3 letter grammar of a meeting code, as the data model states it.
MeetingCodeGrammar(s) ==
    /\ Len(s) = 12
    /\ \A i \in 1..12 : IF i \in {4, 9} THEN s[i] = "-" ELSE s[i] \in Alpha

Init ==
    /\ input \in Inputs
    /\ pc = "idle"
    /\ fn = "none"
    /\ res = Null
    /\ alt = <<>>
    /\ resAlt = Null
    /\ AppInit

CallParseGoogleMeet ==
    /\ pc = "idle"
    /\ fn' = "meet"
    /\ res' = parseGoogleMeet(input)
    /\ pc' = "done"
    /\ UNCHANGED <<input, alt, resAlt, appVars>>

CallParseWhatsAppGroupLink ==
    /\ pc = "idle"
    /\ fn' = "whatsapp"
    /\ res' = parseWhatsAppGroupLink(input)
    /\ pc' = "done"
    /\ UNCHANGED <<input, alt, resAlt, appVars>>

CallNormalizeExternalUrl ==
    /\ pc = "idle"
    /\ fn' = "normalize"
    /\ res' = [kind |-> "text", url |-> normalizeExternalUrl(input)]
    /\ pc' = "done"
    /\ UNCHANGED <<input, alt, resAlt, appVars>>

\* The caller resolves the url of a successful Meet result again.
ResolveResultUrl ==
    /\ pc = "done" /\ fn = "meet"
    /\ res.kind \in {"code", "lookup", "url"}
    /\ alt' = res.url
    /\ resAlt' = parseGoogleMeet(res.url)
    /\ pc' = "reparsed"
    /\ UNCHANGED <<input, fn, res, appVars>>

\* The caller resolves the same meeting code in another letter case.
ResolveRecased ==
    /\ pc = "done" /\ fn = "meet"
    /\ MeetingCodeGrammar(input)
    /\ \E v \in {ToUpperCase(input), ToLowerCase(input)} :
          /\ alt' = v
          /\ resAlt' = parseGoogleMeet(v)
    /\ pc' = "recased"
    /\ UNCHANGED <<input, fn, res, appVars>>

\* The caller resolves the g.co/meet/ link that wraps the meeting code.
ResolveRedirectOfCode ==
    /\ pc = "done" /\ fn = "meet"
    /\ MeetingCodeGrammar(input)
    /\ \E s \in {<<>>, HttpsPrefix}, k \in 0..MaxSlashes :
          /\ alt' = s \o RedirectDomainPrefix \o input \o Slashes(k)
          /\ resAlt' = parseGoogleMeet(alt')
    /\ pc' = "redirected"
    /\ UNCHANGED <<input, fn, res, appVars>>

\* The caller resolves a schemeless Meet input again with https:// in front.
ResolveWithScheme ==
    /\ pc = "done" /\ fn = "meet"
    /\ StartsWith(input, MeetDomainPrefix) \/ StartsWith(input, RedirectDomainPrefix)
    /\ alt' = HttpsPrefix \o input
    /\ resAlt' = parseGoogleMeet(alt')
    /\ pc' = "schemed"
    /\ UNCHANGED <<input, fn, res, appVars>>

\* The caller resolves an accepted invite link again with something after it.
ResolveWithTail ==
    /\ pc = "done" /\ fn = "whatsapp"
    /\ res.kind = "invite"
    /\ \E tl \in Tails :
          /\ alt' = input \o tl
          /\ resAlt' = parseWhatsAppGroupLink(alt')
    /\ pc' = "tailed"
    /\ UNCHANGED <<input, fn, res, appVars>>

\* The caller resolves the trimmed text of a padded input.
ResolveTrimmed ==
    /\ pc = "done" /\ fn \in {"meet", "whatsapp"}
    /\ Trim(input) # input
    /\ alt' = Trim(input)
    /\ resAlt' = IF fn = "meet" THEN parseGoogleMeet(Trim(input))
                 ELSE parseWhatsAppGroupLink(Trim(input))
    /\ pc' = "trimmed"
    /\ UNCHANGED <<input, fn, res, appVars>>

\* The caller resolves a schemeless invite input again with https:// in front.
ResolveInviteWithScheme ==
    /\ pc = "done" /\ fn = "whatsapp"
    /\ StartsWith(input, WhatsAppDomainPrefix)
    /\ alt' = HttpsPrefix \o input
    /\ resAlt' = parseWhatsAppGroupLink(alt')
    /\ pc' = "invite_schemed"
    /\ UNCHANGED <<input, fn, res, appVars>>

\* The caller resolves a lookup link again with the token in another letter case.
ResolveLookupRecased ==
    /\ pc = "done" /\ fn = "meet"
    /\ res.kind = "lookup"
    /\ Len(input) > Len(res.token)
    /\ From(input, Len(input) - Len(res.token) + 1) = res.token
    /\ \E v \in {ToUpperCase(res.token), ToLowerCase(res.token)} :
          /\ v # res.token
          /\ alt' = SubSeq(input, 1, Len(input) - Len(res.token)) \o v
          /\ resAlt' = parseGoogleMeet(alt')
    /\ pc' = "lookup_recased"
    /\ UNCHANGED <<input, fn, res, appVars>>

\* The caller resolves another URL of the same primary-host path: other scheme,
\* user-info, port, trailing slash, query and fragment.
ResolveVariant ==
    /\ pc = "done" /\ fn = "meet"
    /\ StartsWith(input, HttpsPrefix \o MeetDomainPrefix)
    /\ \E s \in {HttpPrefix, HttpsPrefix},
          a \in {<<>>, <<"u","s","e","r",":","p","w","@">>},
          p \in {<<>>, <<":","8","0","8","0">>},
          k \in {0, 1},
          x \in {<<>>, <<"?","q","=","1","#","f","r","a","g">>} :
          /\ alt' = s \o a \o MeetHost \o p
                      \o From(input, Len(HttpsPrefix \o MeetHost) + 1)
                      \o Slashes(k) \o x
          /\ resAlt' = parseGoogleMeet(alt')
    /\ pc' = "varied"
    /\ UNCHANGED <<input, fn, res, appVars>>

\* The caller resolves the link an invite call returned.
ResolveInviteResult ==
    /\ pc = "done" /\ fn = "whatsapp"
    /\ res.kind = "invite"
    /\ alt' = res.url
    /\ resAlt' = parseWhatsAppGroupLink(res.url)
    /\ pc' = "invite_reparsed"
    /\ UNCHANGED <<input, fn, res, appVars>>

\* The caller normalizes the text the normalizer returned.
NormalizeAgain ==
    /\ pc = "done" /\ fn = "normalize"
    /\ alt' = res.url
    /\ resAlt' = [kind |-> "text", url |-> normalizeExternalUrl(res.url)]
    /\ pc' = "renormalized"
    /\ UNCHANGED <<input, fn, res, appVars>>

\* What a call of resolver g on the string s returns.
Apply(g, s) ==
    CASE g = "meet" -> parseGoogleMeet(s)
      [] g = "whatsapp" -> parseWhatsAppGroupLink(s)
      [] g = "normalize" -> [kind |-> "text", url |-> normalizeExternalUrl(s)]

ThenPc(g) ==
    CASE g = "meet" -> "then_meet"
      [] g = "whatsapp" -> "then_whatsapp"
      [] g = "normalize" -> "then_normalize"

\* Mutant of CallInterleaved: the invite pattern is one shared sticky regex, so
\* a test that matched leaves its position behind and the next test fails.
CallInterleavedStickyRegex ==
    /\ pc = "done"
    /\ \E g \in {"meet", "whatsapp", "normalize"} :
          /\ alt' = input
          /\ resAlt' = IF g = "whatsapp" /\ fn = "whatsapp" /\ res.kind = "invite"
                       THEN Null ELSE Apply(g, input)
          /\ pc' = ThenPc(g)
    /\ UNCHANGED <<input, fn, res, appVars>>

\* After one call, another handler calls any of the three functions on the same
\* text: the functions read their argument only and no module-level state.
CallInterleaved ==
    /\ pc = "done"
    /\ \E g \in {"meet", "whatsapp", "normalize"} :
          /\ alt' = input
          /\ resAlt' = Apply(g, input)
          /\ pc' = ThenPc(g)
    /\ UNCHANGED <<input, fn, res, appVars>>

Next ==
    \/ CallParseGoogleMeet
    \/ CallParseWhatsAppGroupLink
    \/ CallNormalizeExternalUrl
    \/ ResolveResultUrl
    \/ ResolveRecased
    \/ ResolveRedirectOfCode
    \/ ResolveWithScheme
    \/ ResolveWithTail
    \/ ResolveTrimmed
    \/ ResolveInviteWithScheme
    \/ ResolveLookupRecased
    \/ CallInterleaved
    \/ ResolveVariant
    \/ ResolveInviteResult
    \/ NormalizeAgain

Spec == Init /\ [][Next]_vars

(***************************************************************************)
(* The handlers of the App component.  One action is one event handler or  *)
(* timer callback, run to its end with the effects its state changes       *)
(* trigger.  A handler is enabled where the control that calls it is       *)
(* rendered and not disabled.                                              *)
(***************************************************************************)
resolverVars == <<input, pc, fn, res, alt, resAlt>>

whatsAppVars == <<whatsAppConnected, whatsAppGroupUrl, whatsAppError>>

testerVars == <<meetLink, meetParsed, meetLinkError>>

syncVars == <<calendarSyncEnabled, syncing, lastSyncedAt, syncTimers>>

addVars == <<addMeetingOpen, addMeetingForm>>

\* The component alone: no resolver call of the first part is under way.
AppStart ==
    /\ input = <<>>
    /\ pc = "idle"
    /\ fn = "none"
    /\ res = Null
    /\ alt = <<>>
    /\ resAlt = Null
    /\ AppInit

\* What is typed or pasted into the WhatsApp invite field.
WhatsAppTyped ==
    {<<>>,
     WhatsAppUrlBase \o <<"/">> \o Token(12),
     <<" ">> \o WhatsAppDomainPrefix \o Token(InviteTokenMinLen) \o <<"/","?","x","=","1">> \o <<" ">>,
     HttpPrefix \o WhatsAppDomainPrefix \o Token(14) \o <<"/","e","x","t","r","a","#","f","r","a","g">>,
     WhatsAppUrlBase \o <<"/","s","h","o","r","t">>,
     HttpsPrefix \o <<"w","h","a","t","s","a","p","p",".","c","o","m","/">> \o Token(InviteTokenMinLen),
     HttpsPrefix \o <<"C","h","a","t",".","W","h","a","t","s","A","p","p",".","c","o","m","/">> \o Token(MaxTokenLen),
     WhatsAppDomainPrefix,
     <<"n","o","t"," ","a"," ","l","i","n","k">>}

\* The invite field's onChange (the field is disabled while connected).
EditWhatsAppGroupUrl ==
    /\ ~whatsAppConnected
    /\ \E v \in WhatsAppTyped : v # whatsAppGroupUrl /\ whatsAppGroupUrl' = v
    /\ UNCHANGED <<resolverVars, whatsAppConnected, whatsAppError, testerVars, syncVars,
                   addVars, meetings, autoJoinAllNew, googleConnected, oauthModalOpen,
                   openedUrl>>

\* Mutant of connectWhatsAppGroupWith: the text of the field is kept as typed.
connectWhatsAppGroupKeepsTyped(normalized) ==
    IF normalized = Null
    THEN /\ whatsAppError' = WhatsAppErrorText
         /\ UNCHANGED <<whatsAppConnected, whatsAppGroupUrl>>
    ELSE /\ whatsAppGroupUrl' = whatsAppGroupUrl
         /\ whatsAppError' = NoError
         /\ whatsAppConnected' = TRUE

\* connectWhatsAppGroup after normalized = parseWhatsAppGroupLink(whatsAppGroupUrl).
connectWhatsAppGroupWith(normalized) ==
    IF normalized = Null
    THEN /\ whatsAppError' = WhatsAppErrorText
         /\ UNCHANGED <<whatsAppConnected, whatsAppGroupUrl>>
    ELSE /\ whatsAppGroupUrl' = normalized.url
         /\ whatsAppError' = NoError
         /\ whatsAppConnected' = TRUE

\* const connectWhatsAppGroup (the Connect button is rendered while not connected).
ConnectWhatsAppGroup ==
    /\ ~whatsAppConnected
    /\ connectWhatsAppGroupWith(parseWhatsAppGroupLink(whatsAppGroupUrl))
    /\ UNCHANGED <<resolverVars, testerVars, syncVars, addVars, meetings, autoJoinAllNew,
                   googleConnected, oauthModalOpen, openedUrl>>

\* const disconnectWhatsAppGroup (the Disconnect button is rendered while connected).
DisconnectWhatsAppGroup ==
    /\ whatsAppConnected
    /\ whatsAppConnected' = FALSE
    /\ whatsAppError' = NoError
    /\ UNCHANGED <<resolverVars, whatsAppGroupUrl, testerVars, syncVars, addVars, meetings,
                   autoJoinAllNew, googleConnected, oauthModalOpen, openedUrl>>

\* The Open Group button: window.open(whatsAppGroupUrl, "_blank").
OpenWhatsAppGroup ==
    /\ whatsAppConnected
    /\ openedUrl' = whatsAppGroupUrl
    /\ UNCHANGED <<resolverVars, whatsAppVars, testerVars, syncVars, addVars, meetings,
                   autoJoinAllNew, googleConnected, oauthModalOpen>>

\* What is typed or pasted into the field of the Meet Link Tester.
MeetTyped ==
    {<<>>,
     ToUpperCase(Code1),
     <<" ">> \o MeetDomainPrefix \o <<"l","o","o","k","u","p","/","T","o","k">> \o <<" ">>,
     HttpsPrefix \o RedirectDomainPrefix \o <<"x","y","z","/">>,
     MeetUrlBase \o <<"/","f","o","o","/","b","a","r","?","x","=","1">>,
     <<"f","o","o",":","/","/">> \o MeetDomainPrefix \o Code1,
     <<"h","t","t","p","s",":","/","/","z","o","o","m",".","u","s","/","j","/","1">>,
     <<"n","o","t"," ","a"," ","l","i","n","k">>}

\* The tester field's onChange.
EditMeetLink ==
    /\ \E v \in MeetTyped : v # meetLink /\ meetLink' = v
    /\ UNCHANGED <<resolverVars, whatsAppVars, meetParsed, meetLinkError, syncVars, addVars,
                   meetings, autoJoinAllNew, googleConnected, oauthModalOpen, openedUrl>>

\* Mutant of validateMeetLinkWith: a failed validation keeps the earlier result.
validateMeetLinkKeepsParsed(p) ==
    IF p = Null
    THEN /\ meetLinkError' = MeetLinkErrorText
         /\ UNCHANGED meetParsed
    ELSE /\ meetLinkError' = NoError
         /\ meetParsed' = p

\* validateMeetLink after p = parseGoogleMeet(meetLink).
validateMeetLinkWith(p) ==
    IF p = Null
    THEN /\ meetParsed' = Null
         /\ meetLinkError' = MeetLinkErrorText
    ELSE /\ meetLinkError' = NoError
         /\ meetParsed' = p

\* const validateMeetLink
ValidateMeetLink ==
    /\ validateMeetLinkWith(parseGoogleMeet(meetLink))
    /\ UNCHANGED <<resolverVars, whatsAppVars, meetLink, syncVars, addVars, meetings,
                   autoJoinAllNew, googleConnected, oauthModalOpen, openedUrl>>

\* The Test Join button: window.open(meetParsed.url, "_blank") once a link is validated.
TestJoin ==
    /\ IF meetParsed = Null THEN UNCHANGED openedUrl ELSE openedUrl' = meetParsed.url
    /\ UNCHANGED <<resolverVars, whatsAppVars, testerVars, syncVars, addVars, meetings,
                   autoJoinAllNew, googleConnected, oauthModalOpen>>

\* const disconnectGoogle (the Disconnect button is rendered while connected).
DisconnectGoogle ==
    /\ googleConnected
    /\ googleConnected' = FALSE
    /\ meetParsed' = Null
    /\ meetLink' = <<>>
    /\ meetLinkError' = NoError
    /\ UNCHANGED <<resolverVars, whatsAppVars, syncVars, addVars, meetings, autoJoinAllNew,
                   oauthModalOpen, openedUrl>>

\* const openConnectFlow (the Connect Google button is rendered while disconnected).
OpenConnectFlow ==
    /\ ~googleConnected
    /\ ~oauthModalOpen
    /\ oauthModalOpen' = TRUE
    /\ UNCHANGED <<resolverVars, whatsAppVars, testerVars, syncVars, addVars, meetings,
                   autoJoinAllNew, googleConnected, openedUrl>>

\* The Cancel button and onClose of the OAuth modal.
CancelConnect ==
    /\ oauthModalOpen
    /\ oauthModalOpen' = FALSE
    /\ UNCHANGED <<resolverVars, whatsAppVars, testerVars, syncVars, addVars, meetings,
                   autoJoinAllNew, googleConnected, openedUrl>>

\* const confirmConnect (the Allow button of the OAuth modal); new Date() is no
\* earlier than the last one.
ConfirmConnect ==
    /\ oauthModalOpen
    /\ oauthModalOpen' = FALSE
    /\ googleConnected' = TRUE
    /\ \E t \in lastSyncedAt..MaxTime : lastSyncedAt' = t
    /\ UNCHANGED <<resolverVars, whatsAppVars, testerVars, calendarSyncEnabled, syncing,
                   syncTimers, addVars, meetings, autoJoinAllNew, openedUrl>>

NextWhatsApp ==
    \/ EditWhatsAppGroupUrl
    \/ ConnectWhatsAppGroup
    \/ DisconnectWhatsAppGroup
    \/ OpenWhatsAppGroup

\* The WhatsApp group card of the integrations view.
SpecWhatsApp == AppStart /\ [][NextWhatsApp]_vars

NextMeetTester ==
    \/ EditMeetLink
    \/ ValidateMeetLink
    \/ TestJoin
    \/ DisconnectGoogle
    \/ OpenConnectFlow
    \/ CancelConnect
    \/ ConfirmConnect

\* The Meet Link Tester and the Google connection of the integrations view.
SpecMeetTester == AppStart /\ [][NextMeetTester]_vars

(***************************************************************************)
(* The add-meeting dialog.                                                 *)
(***************************************************************************)
\* Most meetings added by hand.
MaxManual == 1

\* The ids submitManualMeeting draws: manual_<time>_<random digits>.
ManualIds == {"manual_1762250400000_9f3a", "manual_1762250400000_c07e"}

ManualCount(ms) == Cardinality({i \in 1..Len(ms) : ms[i].id \in ManualIds})

\* What is typed into the fields of the dialog.
TitleTyped == {<<>>, <<" ">>, <<" ","S","t","a","n","d","u","p"," ">>}

PlatformChosen == {"Google Meet", "Zoom"}

LinkTyped == {<<>>, <<" ">>, ToUpperCase(Code1), <<" ","z","o","o","m",".","u","s","/","j","/","1"," ">>}

DateChosen == {<<>>, NextHourDate, <<"2","0","2","0","-","0","1","-","0","1">>}

TimeChosen == {<<>>, NextHourTime}

IsDigits(s) == \A i \in 1..Len(s) : s[i] \in Digit

\* A yyyy-mm-dd text, the value of a date input.
IsDateText(d) ==
    /\ Len(d) = 10
    /\ d[5] = "-" /\ d[8] = "-"
    /\ IsDigits(SubSeq(d, 1, 4)) /\ IsDigits(SubSeq(d, 6, 7)) /\ IsDigits(SubSeq(d, 9, 10))
    /\ DigitsToNat(SubSeq(d, 6, 7), 0) \in 1..12
    /\ DigitsToNat(SubSeq(d, 9, 10), 0) \in 1..31

\* An hh:mm text, the value of a time input.
IsTimeText(t) ==
    /\ Len(t) = 5
    /\ t[3] = ":"
    /\ IsDigits(SubSeq(t, 1, 2)) /\ IsDigits(SubSeq(t, 4, 5))
    /\ DigitsToNat(SubSeq(t, 1, 2), 0) \in 0..23
    /\ DigitsToNat(SubSeq(t, 4, 5), 0) \in 0..59

\* !Number.isNaN(new Date(`${date}T${time}`).getTime()), on the values the date
\* and the time input hold (a well-formed text or the empty string).
IsValidDateTime(date, time) == IsDateText(date) /\ IsTimeText(time)

\* dt.getTime() < Date.now()
IsPast(date, time) ==
    \/ DigitsToNat(SubSeq(date, 1, 4) \o SubSeq(date, 6, 7) \o SubSeq(date, 9, 10), 0) < Today
    \/ /\ DigitsToNat(SubSeq(date, 1, 4) \o SubSeq(date, 6, 7) \o SubSeq(date, 9, 10), 0) = Today
       /\ DigitsToNat(SubSeq(time, 1, 2) \o SubSeq(time, 4, 5), 0) < TimeOfDay

\* The Add buttons: setAddMeetingOpen(true), and the effect that resets the form.
OpenAddMeeting ==
    /\ ~addMeetingOpen
    /\ addMeetingOpen' = TRUE
    /\ addMeetingForm' = defaultAddMeetingForm(autoJoinAllNew)
    /\ UNCHANGED <<resolverVars, whatsAppVars, testerVars, syncVars, meetings,
                   autoJoinAllNew, googleConnected, oauthModalOpen, openedUrl>>

\* onClose and the Cancel button of the dialog.
CloseAddMeeting ==
    /\ addMeetingOpen
    /\ addMeetingOpen' = FALSE
    /\ UNCHANGED <<resolverVars, whatsAppVars, testerVars, syncVars, meetings,
                   autoJoinAllNew, googleConnected, oauthModalOpen, openedUrl,
                   addMeetingForm>>

\* The onChange handlers of the fields of the dialog.
EditTitle ==
    /\ addMeetingOpen
    /\ \E v \in TitleTyped :
          /\ v # addMeetingForm.title
          /\ addMeetingForm' = [addMeetingForm EXCEPT !.title = v]
    /\ UNCHANGED <<resolverVars, whatsAppVars, testerVars, syncVars, meetings,
                   autoJoinAllNew, googleConnected, oauthModalOpen, openedUrl,
                   addMeetingOpen>>

EditPlatform ==
    /\ addMeetingOpen
    /\ \E v \in PlatformChosen :
          /\ v # addMeetingForm.platform
          /\ addMeetingForm' = [addMeetingForm EXCEPT !.platform = v]
    /\ UNCHANGED <<resolverVars, whatsAppVars, testerVars, syncVars, meetings,
                   autoJoinAllNew, googleConnected, oauthModalOpen, openedUrl,
                   addMeetingOpen>>

EditLink ==
    /\ addMeetingOpen
    /\ \E v \in LinkTyped :
          /\ v # addMeetingForm.link
          /\ addMeetingForm' = [addMeetingForm EXCEPT !.link = v]
    /\ UNCHANGED <<resolverVars, whatsAppVars, testerVars, syncVars, meetings,
                   autoJoinAllNew, googleConnected, oauthModalOpen, openedUrl,
                   addMeetingOpen>>

EditDate ==
    /\ addMeetingOpen
    /\ \E v \in DateChosen :
          /\ v # addMeetingForm.date
          /\ addMeetingForm' = [addMeetingForm EXCEPT !.date = v]
    /\ UNCHANGED <<resolverVars, whatsAppVars, testerVars, syncVars, meetings,
                   autoJoinAllNew, googleConnected, oauthModalOpen, openedUrl,
                   addMeetingOpen>>

EditTime ==
    /\ addMeetingOpen
    /\ \E v \in TimeChosen :
          /\ v # addMeetingForm.time
          /\ addMeetingForm' = [addMeetingForm EXCEPT !.time = v]
    /\ UNCHANGED <<resolverVars, whatsAppVars, testerVars, syncVars, meetings,
                   autoJoinAllNew, googleConnected, oauthModalOpen, openedUrl,
                   addMeetingOpen>>

\* The Auto-join toggle of the dialog.
EditFormAutoJoin ==
    /\ addMeetingOpen
    /\ addMeetingForm' = [addMeetingForm EXCEPT !.autoJoin = ~addMeetingForm.autoJoin]
    /\ UNCHANGED <<resolverVars, whatsAppVars, testerVars, syncVars, meetings,
                   autoJoinAllNew, googleConnected, oauthModalOpen, openedUrl,
                   addMeetingOpen>>

\* submitManualMeeting: does the link let the meeting be added?  parsed is
\* parseGoogleMeet(rawLink).
ManualLinkAccepted(platform, rawLink, parsed) ==
    /\ rawLink # <<>>
    /\ platform = "Google Meet" => parsed # Null

\* Mutant of ManualJoinUrl: the link of a Google Meet meeting is stored as typed.
ManualJoinUrlAsTyped(platform, rawLink, parsed) ==
    IF platform = "Google Meet" THEN rawLink ELSE normalizeExternalUrl(rawLink)

\* submitManualMeeting: joinUrl of the new meeting.
ManualJoinUrl(platform, rawLink, parsed) ==
    IF platform = "Google Meet" THEN parsed.url ELSE normalizeExternalUrl(rawLink)

\* submitManualMeeting: meetUrl of the new meeting.
ManualMeetUrl(platform, parsed) ==
    IF platform = "Google Meet" THEN parsed.url ELSE Absent

\* submitManualMeeting, with title and rawLink the trimmed fields and parsed
\* the result of parseGoogleMeet(rawLink).
submitManualMeetingWith(form, title, rawLink, parsed, id) ==
    IF \/ title = <<>>
       \/ ~IsValidDateTime(form.date, form.time)
       \/ ~ManualLinkAccepted(form.platform, rawLink, parsed)
    THEN UNCHANGED <<meetings, addMeetingOpen>>
    ELSE /\ meetings' =
              <<Meeting(id, title, form.platform,
                        IF IsPast(form.date, form.time) THEN "completed" ELSE "upcoming",
                        form.autoJoin,
                        ManualJoinUrl(form.platform, rawLink, parsed),
                        ManualMeetUrl(form.platform, parsed))>> \o meetings
         /\ addMeetingOpen' = FALSE

\* const submitManualMeeting (onSubmit of the form of the dialog).
SubmitManualMeeting ==
    /\ addMeetingOpen
    /\ ManualCount(meetings) < MaxManual
    /\ \E id \in ManualIds :
          submitManualMeetingWith(addMeetingForm, Trim(addMeetingForm.title),
                                  Trim(addMeetingForm.link),
                                  parseGoogleMeet(Trim(addMeetingForm.link)), id)
    /\ UNCHANGED <<resolverVars, whatsAppVars, testerVars, syncVars, autoJoinAllNew,
                   googleConnected, oauthModalOpen, openedUrl, addMeetingForm>>

\* The Auto-join new meetings toggle, and the effect that resets the form of an
\* open dialog.
ToggleAutoJoinAllNew ==
    /\ autoJoinAllNew' = ~autoJoinAllNew
    /\ addMeetingForm' = IF addMeetingOpen THEN defaultAddMeetingForm(autoJoinAllNew')
                         ELSE addMeetingForm
    /\ UNCHANGED <<resolverVars, whatsAppVars, testerVars, syncVars, meetings,
                   googleConnected, oauthModalOpen, openedUrl, addMeetingOpen>>

\* The meetings whose auto-join toggle is used.
ToggleIds == {"gcal_101"} \cup ManualIds

\* const toggleMeetingAutoJoin (the toggle of a meeting of the list).
ToggleMeetingAutoJoin ==
    /\ \E id \in ToggleIds :
          /\ \E i \in 1..Len(meetings) : meetings[i].id = id
          /\ meetings' = [i \in 1..Len(meetings) |->
                             IF meetings[i].id = id
                             THEN [meetings[i] EXCEPT !.autoJoin = ~meetings[i].autoJoin]
                             ELSE meetings[i]]
    /\ UNCHANGED <<resolverVars, whatsAppVars, testerVars, syncVars, addVars,
                   autoJoinAllNew, googleConnected, oauthModalOpen, openedUrl>>

NextManualAdd ==
    \/ OpenAddMeeting
    \/ CloseAddMeeting
    \/ EditTitle
    \/ EditPlatform
    \/ EditLink
    \/ EditDate
    \/ EditTime
    \/ EditFormAutoJoin
    \/ SubmitManualMeeting
    \/ ToggleAutoJoinAllNew
    \/ ToggleMeetingAutoJoin

\* The add-meeting dialog of the dashboard.
SpecManualAdd == AppStart /\ [][NextManualAdd]_vars

(***************************************************************************)
(* Calendar sync.                                                          *)
(***************************************************************************)
\* The Auto-sync Calendar toggle.
ToggleCalendarSync ==
    /\ calendarSyncEnabled' = ~calendarSyncEnabled
    /\ UNCHANGED <<resolverVars, whatsAppVars, testerVars, syncing, lastSyncedAt,
                   syncTimers, addVars, meetings, autoJoinAllNew, googleConnected,
                   oauthModalOpen, openedUrl>>

\* Mutant of syncNowBody: the calendar sync switch is not looked at.
syncNowIgnoresSwitch(autoJoinDefault) ==
    IF ~googleConnected
    THEN UNCHANGED <<syncing, syncTimers>>
    ELSE /\ syncing' = TRUE
         /\ syncTimers' = Append(syncTimers, [autoJoin |-> autoJoinDefault])

\* syncNow: the two guards, setSyncing(true) and window.setTimeout(..., 900); the
\* callback keeps the autoJoinAllNew of the render that made it.
syncNowBody(autoJoinDefault) ==
    IF ~googleConnected \/ ~calendarSyncEnabled
    THEN UNCHANGED <<syncing, syncTimers>>
    ELSE /\ syncing' = TRUE
         /\ syncTimers' = Append(syncTimers, [autoJoin |-> autoJoinDefault])

\* const syncNow (the Sync Now button is disabled while syncing).
SyncNow ==
    /\ ~syncing
    /\ syncNowBody(autoJoinAllNew)
    /\ UNCHANGED <<resolverVars, whatsAppVars, testerVars, calendarSyncEnabled,
                   lastSyncedAt, addVars, meetings, autoJoinAllNew, googleConnected,
                   oauthModalOpen, openedUrl>>

\* new Set(prev.map((m) => m.id))
MeetingIds(ms) == {ms[i].id : i \in 1..Len(ms)}

\* Mutant of ImportMeetings: the meetings that came in are added as they are.
ImportMeetingsUnfiltered(prev, inb) == inb \o prev

\* setMeetings((prev) => [...inbound.filter((m) => !existing.has(m.id)), ...prev])
ImportMeetings(prev, inb) ==
    SelectSeq(inb, LAMBDA m : m.id \notin MeetingIds(prev)) \o prev

\* The callback of the timer syncNow has set, 900 ms later.
SyncTimerFires ==
    /\ \E i \in 1..Len(syncTimers) :
          /\ meetings' = ImportMeetings(meetings, inbound(syncTimers[i].autoJoin))
          /\ syncTimers' = SubSeq(syncTimers, 1, i - 1)
                           \o SubSeq(syncTimers, i + 1, Len(syncTimers))
    /\ \E t \in lastSyncedAt..MaxTime : lastSyncedAt' = t
    /\ syncing' = FALSE
    /\ UNCHANGED <<resolverVars, whatsAppVars, testerVars, calendarSyncEnabled, addVars,
                   autoJoinAllNew, googleConnected, oauthModalOpen, openedUrl>>

NextSync ==
    \/ SyncNow
    \/ SyncTimerFires
    \/ ToggleCalendarSync
    \/ ToggleAutoJoinAllNew
    \/ DisconnectGoogle
    \/ OpenConnectFlow
    \/ CancelConnect
    \/ ConfirmConnect

\* The Google Meet card of the integrations view: connection and calendar sync.
SpecSync == AppStart /\ [][NextSync]_vars

NextDashboard ==
    \/ SyncNow
    \/ SyncTimerFires
    \/ ToggleAutoJoinAllNew
    \/ ToggleMeetingAutoJoin
    \/ OpenAddMeeting
    \/ CloseAddMeeting
    \/ EditTitle
    \/ EditLink
    \/ SubmitManualMeeting

\* The list of meetings under sync, manual additions and the auto-join toggles.
SpecDashboard == AppStart /\ [][NextDashboard]_vars

(***************************************************************************)
(* Claims.                                                                 *)
(***************************************************************************)
Succeeded(r) == r.kind \in {"code", "lookup", "url"}

\* C1: idempotence of the Meet resolver: resolving the url of a successful
\* result succeeds again and gives the same result (same kind, same
\* code/token/path, same url).
C1_Idempotent ==
    pc = "reparsed" => (resAlt.kind = res.kind /\ resAlt = res)

\* C2: the url of every successful Meet result is an absolute URL with scheme
\* https and host meet.google.com.
C2_CanonicalUrl ==
    (pc = "done" /\ fn = "meet" /\ Succeeded(res)) =>
        /\ NewURL(res.url).ok
        /\ NewURL(res.url).scheme = <<"h","t","t","p","s">>
        /\ NewURL(res.url).hostname = MeetHost

\* The URL a resolver parsed on a successful call: the input, with https:// in
\* front when it has no scheme.
ParsedInputUrl(s) ==
    IF NewURL(s).ok THEN NewURL(s) ELSE NewURL(HttpsPrefix \o Trim(s))

\* C2 (amended): the url of every successful Meet result is an absolute URL
\* with scheme https and host meet.google.com, except the Path result of a
\* g.co/meet/ redirect link, whose url is the string form of the parsed input
\* URL (host g.co, the scheme of the input).
C2_CanonicalUrlExceptRedirectPath ==
    (pc = "done" /\ fn = "meet" /\ Succeeded(res)) =>
        IF res.kind = "url" /\ ParsedInputUrl(input).hostname = RedirectHost
        THEN /\ res.url = URLToString(ParsedInputUrl(input))
             /\ NewURL(res.url).hostname = RedirectHost
        ELSE /\ NewURL(res.url).ok
             /\ NewURL(res.url).scheme = <<"h","t","t","p","s">>
             /\ NewURL(res.url).hostname = MeetHost

\* C2 witness: a Path result of an http:// redirect link, and its url.
C2_Witness ==
    /\ pc = "done" /\ fn = "meet"
    /\ res.kind = "url"
    /\ StartsWith(input, HttpPrefix \o RedirectHost)
    /\ StartsWith(res.url, HttpPrefix \o RedirectHost)

\* C3: neither resolver raises: every call of parseGoogleMeet and of
\* parseWhatsAppGroupLink ends with a successful value or with null, also
\* where new URL throws.
C3_NeverRaises ==
    (pc # "idle" /\ fn \in {"meet", "whatsapp"}) =>
        /\ res.kind \in {"code", "lookup", "url", "invite", "null"}
        /\ pc \notin {"then_normalize", "renormalized"} =>
               resAlt.kind \in {"code", "lookup", "url", "invite", "null"}

\* C3 witness: a call whose input is no URL (new URL throws) ended with null.
C3_Witness ==
    /\ pc = "done" /\ fn = "meet"
    /\ Trim(input) # <<>>
    /\ ~MeetingCodeGrammar(Trim(input))
    /\ ~NewURL(input).ok
    /\ ~NewURL(HttpsPrefix \o Trim(input)).ok
    /\ res = Null

HasUpper(s) == \E i \in 1..Len(s) : s[i] \in Upper

\* C4: case normalization: a meeting code in any letter case resolves to Code
\* with the code lowercased and url https://meet.google.com/<lowercased code>;
\* inputs that differ only in letter case give equal results.
C4_CaseNormalization ==
    (pc \in {"done", "recased"} /\ fn = "meet" /\ MeetingCodeGrammar(input)) =>
        /\ res.kind = "code"
        /\ res.code = ToLowerCase(input)
        /\ ~HasUpper(res.code)
        /\ res.url = MeetUrlBase \o <<"/">> \o ToLowerCase(input)
        /\ (pc = "recased" => (resAlt.kind = "code" /\ resAlt = res))

\* C4 witness: a code with capitals was resolved, and then in another case.
C4_Witness ==
    /\ pc = "recased"
    /\ HasUpper(input)
    /\ alt # input
    /\ res.kind = "code"

\* C5: redirect unwrapping: the g.co/meet/<c> link of a meeting code c, in any
\* letter case, with or without trailing slashes and https://, resolves to the
\* same Code result as the bare code c.
C5_RedirectUnwrapping ==
    pc = "redirected" =>
        /\ res.kind = "code"
        /\ resAlt.kind = "code"
        /\ resAlt = res
        /\ resAlt.url = MeetUrlBase \o <<"/">> \o ToLowerCase(input)

\* C5 witness: a schemeless redirect link with capitals and a trailing slash.
C5_Witness ==
    /\ pc = "redirected"
    /\ HasUpper(input)
    /\ ~StartsWith(alt, HttpsPrefix)
    /\ alt[Len(alt)] = "/"
    /\ resAlt.kind = "code"

\* C6: scheme completion: a schemeless input that begins with meet.google.com/
\* or g.co/meet/ resolves as the same input with https:// in front, in outcome
\* and in every field.
C6_SchemeCompletion ==
    pc = "schemed" => (resAlt.kind = res.kind /\ resAlt = res)

\* C6 witness: a schemeless g.co/meet/ input that resolved to a result.
C6_Witness ==
    /\ pc = "schemed"
    /\ StartsWith(input, RedirectDomainPrefix)
    /\ Succeeded(res)

\* Three non-empty runs of letters joined by hyphens.
ThreeLetterSegments(s) ==
    /\ Len(SplitOn(s, {"-"})) = 3
    /\ \A k \in 1..3 :
          /\ SplitOn(s, {"-"})[k] # <<>>
          /\ \A i \in 1..Len(SplitOn(s, {"-"})[k]) : SplitOn(s, {"-"})[k][i] \in Alpha

WrongShape(s) == ThreeLetterSegments(s) /\ ~MeetingCodeGrammar(s)

\* C7: grammar rejection: an input of three hyphen-joined letter segments whose
\* lengths are not 3, 4 and 3 resolves to null, and no such string is the code
\* of a Code result.
C7_GrammarRejection ==
    /\ (pc = "done" /\ fn = "meet" /\ WrongShape(input)) => res = Null
    /\ (fn = "meet" /\ res.kind = "code") => ~WrongShape(res.code)
    /\ (fn = "meet" /\ resAlt.kind = "code") => ~WrongShape(resAlt.code)

\* C7 witness: a wrongly shaped code was rejected.
C7_Witness ==
    /\ pc = "done" /\ fn = "meet"
    /\ WrongShape(input)
    /\ res = Null

\* The first non-empty segment of a URL path, empty when it has none.
FirstNonEmptySegment(p) ==
    IF FirstIndexNotIn(p, {"/"}) = 0 THEN <<>>
    ELSE Before(From(p, FirstIndexNotIn(p, {"/"})), {"/"})

\* The invite-token grammar of the data model: 10 or more of [A-Za-z0-9_-].
InviteTokenGrammar(tok) ==
    /\ Len(tok) >= 10
    /\ \A i \in 1..Len(tok) : tok[i] \in (Alpha \cup Digit \cup {"_", "-"})

\* C8: for a URL on host chat.whatsapp.com the invite resolver succeeds exactly
\* when the first non-empty path segment has 10 or more characters, all of
\* [A-Za-z0-9_-]: 9 characters are rejected, 10 accepted, and more are too.
C8_InviteTokenGrammar ==
    (/\ pc = "done" /\ fn = "whatsapp"
     /\ NewURL(input).ok
     /\ NewURL(input).hostname = WhatsAppHost) =>
        /\ res.kind \in {"invite", "null"}
        /\ res.kind = "invite" <=>
               InviteTokenGrammar(FirstNonEmptySegment(NewURL(input).pathname))

\* C8 witness: a token of exactly 10 valid characters was accepted.
C8_Witness ==
    /\ pc = "done" /\ fn = "whatsapp"
    /\ NewURL(input).ok
    /\ NewURL(input).hostname = WhatsAppHost
    /\ Len(FirstNonEmptySegment(NewURL(input).pathname)) = 10
    /\ res.kind = "invite"

InviteShape(s, r) ==
    /\ r.kind = "invite"
    /\ ParsedInputUrl(s).ok
    /\ r.url = WhatsAppUrlBase \o <<"/">> \o FirstNonEmptySegment(ParsedInputUrl(s).pathname)
    /\ InviteTokenGrammar(FirstNonEmptySegment(ParsedInputUrl(s).pathname))

\* C9: every successful invite result is https://chat.whatsapp.com/ followed by
\* the first non-empty path segment of the parsed input URL, which satisfies the
\* token grammar, also when the input used http.
C9_InviteShape ==
    /\ (pc \in {"done", "tailed"} /\ fn = "whatsapp" /\ res.kind # "null") =>
           InviteShape(input, res)
    /\ (pc = "tailed" /\ resAlt.kind # "null") => InviteShape(alt, resAlt)

\* C9 witness: an http:// invite link was accepted.
C9_Witness ==
    /\ pc = "done" /\ fn = "whatsapp"
    /\ StartsWith(input, HttpPrefix)
    /\ res.kind = "invite"

SameValidToken(s1, s2) ==
    /\ ParsedInputUrl(s1).ok /\ ParsedInputUrl(s2).ok
    /\ ParsedInputUrl(s1).hostname = WhatsAppHost
    /\ ParsedInputUrl(s2).hostname = WhatsAppHost
    /\ FirstNonEmptySegment(ParsedInputUrl(s1).pathname)
           = FirstNonEmptySegment(ParsedInputUrl(s2).pathname)
    /\ InviteTokenGrammar(FirstNonEmptySegment(ParsedInputUrl(s1).pathname))

\* C10: sub-path discarding: two chat.whatsapp.com inputs whose parsed URLs have
\* the same valid token as first non-empty path segment give the same result,
\* whatever follows the segment (path segments, slashes, query, fragment).
C10_SubPathDiscarded ==
    (pc = "tailed" /\ SameValidToken(input, alt)) =>
        (resAlt.kind = res.kind /\ resAlt = res)

\* C10 witness: an invite link and the same link with two more path segments.
C10_Witness ==
    /\ pc = "tailed"
    /\ SameValidToken(input, alt)
    /\ From(alt, Len(input) + 1) = <<"/","m","o","r","e","/","x">>
    /\ resAlt = res

\* The URL the invite resolver hands to the parser for the input s.
InviteParsedUrl(s) == NewURL(WhatsAppSchemeCompletion(Trim(s)))

\* C11: exact host for invites: an input whose parsed URL has a host other than
\* exactly chat.whatsapp.com (a sub-domain, another domain, a look-alike)
\* resolves to null, also when its path holds a valid invite token.
C11_ExactInviteHost ==
    (/\ pc = "done" /\ fn = "whatsapp"
     /\ InviteParsedUrl(input).ok
     /\ InviteParsedUrl(input).hostname # WhatsAppHost) => res = Null

\* C11 witness: a sub-domain of chat.whatsapp.com with a valid token was rejected.
C11_Witness ==
    /\ pc = "done" /\ fn = "whatsapp"
    /\ InviteParsedUrl(input).ok
    /\ InviteParsedUrl(input).hostname
           = <<"w","e","b",".">> \o WhatsAppHost
    /\ InviteTokenGrammar(FirstNonEmptySegment(InviteParsedUrl(input).pathname))
    /\ res = Null

\* C12: the normalizer returns the empty string for an input that is empty after
\* trimming, the trimmed input when it starts with http:// or https://, and
\* https:// followed by the trimmed input otherwise; it rejects nothing.
C12_NormalizerResult ==
    (pc = "done" /\ fn = "normalize") =>
        /\ res.kind = "text"
        /\ res.url = IF Trim(input) = <<>> THEN <<>>
                     ELSE IF StartsWith(Trim(input), <<"h","t","t","p",":","/","/">>)
                             \/ StartsWith(Trim(input), <<"h","t","t","p","s",":","/","/">>)
                          THEN Trim(input)
                          ELSE <<"h","t","t","p","s",":","/","/">> \o Trim(input)

\* C12 witness: a padded http:// input came back trimmed and otherwise unchanged.
C12_Witness ==
    /\ pc = "done" /\ fn = "normalize"
    /\ Trim(input) # input
    /\ StartsWith(Trim(input), HttpPrefix)
    /\ res.url = Trim(input)

\* C13: both resolvers give the same result for an input and for its trimmed
\* text, and null for an input that is empty or only white space.
C13_TrimAndEmpty ==
    /\ pc = "trimmed" => (resAlt.kind = res.kind /\ resAlt = res)
    /\ (pc = "done" /\ fn \in {"meet", "whatsapp"} /\ Trim(input) = <<>>) => res = Null

\* C13 witness: a padded schemeless invite link and its trimmed text were both
\* accepted.
C13_Witness ==
    /\ pc = "trimmed" /\ fn = "whatsapp"
    /\ input[1] \in WhiteSpace
    /\ StartsWith(alt, WhatsAppDomainPrefix)
    /\ res.kind = "invite"
    /\ resAlt = res

\* The URL the Meet resolver hands to the parser for the input s.
MeetParsedUrl(s) == NewURL(MeetSchemeCompletion(Trim(s)))

\* C14: mismatched host in the Meet resolver: a valid URL whose host is neither
\* meet.google.com nor g.co with a path that begins with /meet/ resolves to
\* null, like an input that is no URL.
C14_MismatchedHost ==
    (/\ pc = "done" /\ fn = "meet"
     /\ MeetParsedUrl(input).ok
     /\ MeetParsedUrl(input).hostname # MeetHost
     /\ ~(/\ MeetParsedUrl(input).hostname = RedirectHost
          /\ StartsWith(MeetParsedUrl(input).pathname, <<"/","m","e","e","t","/">>)))
        => res = Null

\* C14 (amended): the same, with the /meet/ prefix of a g.co path taken in any
\* letter case: such a URL is a redirect link, every other URL off
\* meet.google.com resolves to null.
C14_MismatchedHostAnyCasePrefix ==
    (/\ pc = "done" /\ fn = "meet"
     /\ MeetParsedUrl(input).ok
     /\ MeetParsedUrl(input).hostname # MeetHost
     /\ ~(/\ MeetParsedUrl(input).hostname = RedirectHost
          /\ StartsWith(ToLowerCase(MeetParsedUrl(input).pathname),
                        <<"/","m","e","e","t","/">>)))
        => res = Null

\* C14 witness: a URL on a foreign host whose path is a valid meeting code was
\* rejected.
C14_Witness ==
    /\ pc = "done" /\ fn = "meet"
    /\ MeetParsedUrl(input).ok
    /\ MeetParsedUrl(input).hostname = <<"e","v","i","l",".","c","o","m">>
    /\ MeetingCodeGrammar(From(MeetParsedUrl(input).pathname, 2))
    /\ res = Null

\* C15: an input that has no http or https scheme (in any letter case), is no
\* bare meeting code and does not begin with meet.google.com/ or g.co/meet/
\* resolves to null.
C15_SchemelessRejection ==
    (/\ pc = "done" /\ fn = "meet"
     /\ ~StartsWith(ToLowerCase(Trim(input)), <<"h","t","t","p",":">>)
     /\ ~StartsWith(ToLowerCase(Trim(input)), <<"h","t","t","p","s",":">>)
     /\ ~MeetingCodeGrammar(Trim(input))
     /\ ~StartsWith(Trim(input), MeetDomainPrefix)
     /\ ~StartsWith(Trim(input), RedirectDomainPrefix))
        => res = Null

\* Does s begin with a URL scheme: a letter, then letters, digits, +, - or .,
\* then a colon?
HasSchemeSyntax(s) ==
    \E i \in 2..Len(s) :
        /\ s[i] = ":"
        /\ s[1] \in Alpha
        /\ \A j \in 1..(i - 1) : s[j] \in (Alpha \cup Digit \cup {"+", "-", "."})

\* C16: a schemeless input that begins with chat.whatsapp.com/ resolves as the
\* same input with https:// in front; every other input without a scheme
\* resolves to null.
C16_InviteSchemeHandling ==
    /\ pc = "invite_schemed" => (resAlt.kind = res.kind /\ resAlt = res)
    /\ (/\ pc = "done" /\ fn = "whatsapp"
        /\ ~HasSchemeSyntax(Trim(input))
        /\ ~StartsWith(Trim(input), WhatsAppDomainPrefix)) => res = Null

\* C16 witness: a schemeless invite link was accepted, and again with https://.
C16_Witness ==
    /\ pc = "invite_schemed"
    /\ res.kind = "invite"
    /\ resAlt = res

OneVariant(r) ==
    \/ r.kind = "null" /\ DOMAIN r = {"kind"}
    \/ r.kind = "code" /\ DOMAIN r = {"kind", "code", "url"}
    \/ r.kind = "lookup" /\ DOMAIN r = {"kind", "token", "url"}
    \/ r.kind = "url" /\ DOMAIN r = {"kind", "path", "url"}

\* C18: every result of the Meet resolver is one variant with only that
\* variant's payload; on the primary host no path has both the lookup shape and
\* the code shape, and the variant is decided by the shape of the path alone.
C18_OneVariant ==
    /\ (pc # "idle" /\ fn = "meet") => OneVariant(res)
    /\ pc \in {"reparsed", "recased", "redirected", "schemed", "trimmed",
               "lookup_recased", "then_meet"} /\ fn = "meet" => OneVariant(resAlt)
    /\ (/\ pc = "done" /\ fn = "meet"
        /\ MeetParsedUrl(input).ok
        /\ MeetParsedUrl(input).hostname = MeetHost) =>
           /\ ~(/\ IsLookupPath(StripTrailingSlashes(MeetParsedUrl(input).pathname))
                /\ IsCodePath(StripTrailingSlashes(MeetParsedUrl(input).pathname)))
           /\ res.kind = "lookup"
                  <=> IsLookupPath(StripTrailingSlashes(MeetParsedUrl(input).pathname))
           /\ res.kind = "code"
                  <=> IsCodePath(StripTrailingSlashes(MeetParsedUrl(input).pathname))
           /\ res.kind = "url"
                  <=> /\ ~IsLookupPath(StripTrailingSlashes(MeetParsedUrl(input).pathname))
                      /\ ~IsCodePath(StripTrailingSlashes(MeetParsedUrl(input).pathname))
                      /\ StripTrailingSlashes(MeetParsedUrl(input).pathname) # <<>>

\* C18 witness: a Path result on the primary host for a path under /lookup/
\* that has neither the lookup shape nor the code shape.
C18_Witness ==
    /\ pc = "done" /\ fn = "meet"
    /\ MeetParsedUrl(input).ok
    /\ MeetParsedUrl(input).hostname = MeetHost
    /\ StartsWith(MeetParsedUrl(input).pathname, LookupSlash)
    /\ res.kind = "url"
    /\ DOMAIN res = {"kind", "path", "url"}

\* C19: every Code result, from a bare code, a meet.google.com URL or a g.co
\* redirect link, has a lowercase 3-4-3 code and the url
\* https://meet.google.com/<code>.
C19_CodeResultsConsistent ==
    \A r \in {res, resAlt} :
        r.kind = "code" =>
            /\ MeetingCodeGrammar(r.code)
            /\ ~HasUpper(r.code)
            /\ r.url = <<"h","t","t","p","s",":","/","/">> \o MeetHost \o <<"/">> \o r.code

\* C19 witness: a bare code with capitals and its redirect link both gave Code.
C19_Witness ==
    /\ pc = "redirected"
    /\ HasUpper(input)
    /\ StartsWith(alt, HttpsPrefix \o RedirectDomainPrefix)
    /\ res.kind = "code"
    /\ resAlt.kind = "code"

\* A path of the form /lookup/<token>, the token one or more non-slash characters.
LookupShape(path) ==
    /\ StartsWith(path, <<"/","l","o","o","k","u","p","/">>)
    /\ Len(path) > 8
    /\ \A i \in 9..Len(path) : path[i] # "/"

\* C20: a URL on meet.google.com whose path without trailing slashes is
\* /lookup/<token> resolves to Lookup with the token as it stands in the path
\* and url https://meet.google.com/lookup/<token>; the same link with the token
\* in another letter case gives a different Lookup result.
C20_LookupBranch ==
    /\ (/\ pc \in {"done", "lookup_recased"} /\ fn = "meet"
        /\ MeetParsedUrl(input).ok
        /\ MeetParsedUrl(input).hostname = MeetHost
        /\ LookupShape(StripTrailingSlashes(MeetParsedUrl(input).pathname))) =>
           /\ res.kind = "lookup"
           /\ res.token = From(StripTrailingSlashes(MeetParsedUrl(input).pathname), 9)
           /\ res.url = <<"h","t","t","p","s",":","/","/">> \o MeetHost
                            \o <<"/","l","o","o","k","u","p","/">> \o res.token
    /\ pc = "lookup_recased" =>
           /\ resAlt.kind = "lookup"
           /\ resAlt.token = From(alt, Len(alt) - Len(res.token) + 1)
           /\ resAlt.token # res.token
           /\ resAlt.url # res.url
           /\ resAlt # res

\* C20 witness: a lookup token with capitals was kept, and its lowercase
\* spelling gave another result.
C20_Witness ==
    /\ pc = "lookup_recased"
    /\ HasUpper(res.token)
    /\ resAlt.token = ToLowerCase(res.token)
    /\ resAlt.url # res.url

\* C21: a URL on meet.google.com whose path is neither a lookup path nor a
\* meeting code resolves to Path with that path and url https://meet.google.com
\* followed by it when the path is not empty and not the root, and to null when
\* it is.
C21_PrimaryPathBranch ==
    (/\ pc = "done" /\ fn = "meet"
     /\ MeetParsedUrl(input).ok
     /\ MeetParsedUrl(input).hostname = MeetHost
     /\ ~IsLookupPath(MeetParsedUrl(input).pathname)
     /\ ~IsCodePath(MeetParsedUrl(input).pathname)) =>
        IF MeetParsedUrl(input).pathname \in {<<>>, <<"/">>}
        THEN res = Null
        ELSE /\ res.kind = "url"
             /\ res.path = MeetParsedUrl(input).pathname
             /\ res.url = <<"h","t","t","p","s",":","/","/">> \o MeetHost
                              \o MeetParsedUrl(input).pathname

\* C21 (amended): the same with the path taken after its trailing slashes are
\* stripped: the result carries the stripped path, and a path of slashes only
\* resolves to null like the empty path.
C21_PrimaryPathBranchStripped ==
    (/\ pc = "done" /\ fn = "meet"
     /\ MeetParsedUrl(input).ok
     /\ MeetParsedUrl(input).hostname = MeetHost
     /\ ~IsLookupPath(StripTrailingSlashes(MeetParsedUrl(input).pathname))
     /\ ~IsCodePath(StripTrailingSlashes(MeetParsedUrl(input).pathname))) =>
        IF StripTrailingSlashes(MeetParsedUrl(input).pathname) = <<>>
        THEN res = Null
        ELSE /\ res.kind = "url"
             /\ res.path = StripTrailingSlashes(MeetParsedUrl(input).pathname)
             /\ res.url = <<"h","t","t","p","s",":","/","/">> \o MeetHost
                              \o StripTrailingSlashes(MeetParsedUrl(input).pathname)

\* C21 witness: a Path result for a path that ended with a slash.
C21_Witness ==
    /\ pc = "done" /\ fn = "meet"
    /\ MeetParsedUrl(input).ok
    /\ MeetParsedUrl(input).hostname = MeetHost
    /\ MeetParsedUrl(input).pathname # StripTrailingSlashes(MeetParsedUrl(input).pathname)
    /\ res.kind = "url"
    /\ res.path = StripTrailingSlashes(MeetParsedUrl(input).pathname)

\* What follows /meet/ in a path, without trailing slashes.
RedirectRemainder(path) == StripTrailingSlashes(From(path, 7))

\* C22: a URL on g.co whose path begins with /meet/ and whose remainder is not
\* empty and not a meeting code resolves to Path with path /meet/<remainder> and
\* the string form of the parsed URL as url, host g.co kept; an empty remainder
\* resolves to null.
C22_RedirectPathBranch ==
    (/\ pc = "done" /\ fn = "meet"
     /\ MeetParsedUrl(input).ok
     /\ MeetParsedUrl(input).hostname = RedirectHost
     /\ StartsWith(MeetParsedUrl(input).pathname, <<"/","m","e","e","t","/">>)
     /\ ~MeetingCodeGrammar(RedirectRemainder(MeetParsedUrl(input).pathname))) =>
        IF RedirectRemainder(MeetParsedUrl(input).pathname) = <<>>
        THEN res = Null
        ELSE /\ res.kind = "url"
             /\ res.path = <<"/","m","e","e","t","/">>
                               \o RedirectRemainder(MeetParsedUrl(input).pathname)
             /\ res.url = URLToString(MeetParsedUrl(input))
             /\ NewURL(res.url).hostname = RedirectHost

\* C22 witness: a Path result of a redirect link whose url kept a trailing
\* slash of the input.
C22_Witness ==
    /\ pc = "done" /\ fn = "meet"
    /\ MeetParsedUrl(input).ok
    /\ MeetParsedUrl(input).hostname = RedirectHost
    /\ res.kind = "url"
    /\ res.url[Len(res.url)] = "/"
    /\ res.path[Len(res.path)] # "/"

\* Two http(s) URLs on meet.google.com with the same path up to trailing slashes.
SamePrimaryPath(s1, s2) ==
    /\ NewURL(s1).ok /\ NewURL(s2).ok
    /\ NewURL(s1).scheme \in {<<"h","t","t","p">>, <<"h","t","t","p","s">>}
    /\ NewURL(s2).scheme \in {<<"h","t","t","p">>, <<"h","t","t","p","s">>}
    /\ NewURL(s1).hostname = MeetHost
    /\ NewURL(s2).hostname = MeetHost
    /\ StripTrailingSlashes(NewURL(s1).pathname) = StripTrailingSlashes(NewURL(s2).pathname)

\* C23: two URLs on meet.google.com with the same path up to trailing slashes
\* resolve to the same result whatever their scheme, port, user-info, query and
\* fragment, and the url of the result has none of these parts.
C23_HostAndPathOnly ==
    (pc = "varied" /\ SamePrimaryPath(input, alt)) =>
        /\ resAlt.kind = res.kind
        /\ resAlt = res
        /\ Succeeded(resAlt) =>
               /\ NewURL(resAlt.url).scheme = <<"h","t","t","p","s">>
               /\ NewURL(resAlt.url).username = <<>>
               /\ NewURL(resAlt.url).password = <<>>
               /\ NewURL(resAlt.url).port = <<>>
               /\ ~NewURL(resAlt.url).hasQuery
               /\ ~NewURL(resAlt.url).hasFragment

\* C23 witness: an http URL with user-info, port, query and fragment gave the
\* Path result of the plain https URL.
C23_Witness ==
    /\ pc = "varied"
    /\ SamePrimaryPath(input, alt)
    /\ StartsWith(alt, HttpPrefix)
    /\ NewURL(alt).username # <<>>
    /\ NewURL(alt).port # <<>>
    /\ NewURL(alt).hasQuery
    /\ NewURL(alt).hasFragment
    /\ res.kind = "url"
    /\ resAlt = res

\* C24: idempotence of the invite resolver: the link of a successful result
\* resolves again, to the same link.
C24_InviteIdempotent ==
    pc = "invite_reparsed" => (resAlt.kind = "invite" /\ resAlt = res)

\* C24 witness: the result of an input with a sub-path resolved to itself.
C24_Witness ==
    /\ pc = "invite_reparsed"
    /\ input # res.url
    /\ Len(SelectSeq(SplitOn(InviteParsedUrl(input).pathname, {"/"}), IsNonEmpty)) > 1
    /\ resAlt = res

\* C25: idempotence of the normalizer: normalizing a result returns it
\* unchanged, and every non-empty result starts with http:// or https://.
C25_NormalizerIdempotent ==
    /\ pc = "renormalized" => resAlt = res
    /\ (pc # "idle" /\ fn = "normalize" /\ res.url # <<>>) =>
           \/ StartsWith(res.url, <<"h","t","t","p",":","/","/">>)
           \/ StartsWith(res.url, <<"h","t","t","p","s",":","/","/">>)

\* C25 witness: a text without scheme was completed and then left as it was.
C25_Witness ==
    /\ pc = "renormalized"
    /\ ~StartsWith(Trim(input), HttpPrefix)
    /\ ~StartsWith(Trim(input), HttpsPrefix)
    /\ res.url = HttpsPrefix \o Trim(input)
    /\ resAlt = res

\* C26: whenever the WhatsApp group is connected, the stored whatsAppGroupUrl is a
\* link parseWhatsAppGroupLink returns (for a typed text, and for itself) and
\* whatsAppError is null; a connectWhatsAppGroup on a text the resolver rejects
\* leaves whatsAppConnected and whatsAppGroupUrl as they were and sets the error.
C26_ConnectedLinkNormalized ==
    /\ [](whatsAppConnected =>
            /\ whatsAppError = NoError
            /\ parseWhatsAppGroupLink(whatsAppGroupUrl) = InviteResult(From(whatsAppGroupUrl, Len(WhatsAppUrlBase) + 2))
            /\ parseWhatsAppGroupLink(whatsAppGroupUrl).url = whatsAppGroupUrl
            /\ \E v \in WhatsAppTyped : parseWhatsAppGroupLink(v) = InviteResult(From(whatsAppGroupUrl, Len(WhatsAppUrlBase) + 2)))
    /\ [][(ConnectWhatsAppGroup /\ parseWhatsAppGroupLink(whatsAppGroupUrl) = Null)
            => (/\ whatsAppConnected' = whatsAppConnected
                /\ whatsAppGroupUrl' = whatsAppGroupUrl
                /\ whatsAppError' = WhatsAppErrorText)]_vars

\* A group connected from a padded, schemeless link with a query, and then opened.
C26_Witness ==
    /\ whatsAppConnected
    /\ whatsAppGroupUrl = WhatsAppUrlBase \o <<"/">> \o Token(InviteTokenMinLen)
    /\ whatsAppGroupUrl \notin WhatsAppTyped
    /\ openedUrl = whatsAppGroupUrl

\* C27: a submitManualMeeting that adds a meeting puts exactly one in front of the
\* list, and only with a non-empty title, a valid date and time and a non-empty
\* link; for Google Meet only when parseGoogleMeet of the link is not null, with
\* joinUrl and meetUrl its url; for another platform with joinUrl
\* normalizeExternalUrl of the link and no meetUrl.  A submission that adds nothing
\* leaves the list as it was and the dialog open.
C27_ManualAddGuarded ==
    [][(addMeetingForm' = addMeetingForm /\ SubmitManualMeeting) =>
         IF meetings' # meetings
         THEN /\ addMeetingForm.title # <<>>
              /\ IsValidDateTime(addMeetingForm.date, addMeetingForm.time)
              /\ addMeetingForm.link # <<>>
              /\ Tail(meetings') = meetings
              /\ meetings'[1].id \in ManualIds
              /\ meetings'[1].platform = addMeetingForm.platform
              /\ IF addMeetingForm.platform = "Google Meet"
                 THEN /\ parseGoogleMeet(addMeetingForm.link) # Null
                      /\ meetings'[1].joinUrl = parseGoogleMeet(addMeetingForm.link).url
                      /\ meetings'[1].meetUrl = parseGoogleMeet(addMeetingForm.link).url
                 ELSE /\ meetings'[1].joinUrl = normalizeExternalUrl(addMeetingForm.link)
                      /\ meetings'[1].meetUrl = Absent
         ELSE /\ addMeetingOpen' = TRUE
              /\ \/ Trim(addMeetingForm.title) = <<>>
                 \/ ~IsValidDateTime(addMeetingForm.date, addMeetingForm.time)
                 \/ Trim(addMeetingForm.link) = <<>>
                 \/ /\ addMeetingForm.platform = "Google Meet"
                    /\ parseGoogleMeet(addMeetingForm.link) = Null]_vars

\* A Google Meet meeting was added from a meeting code typed in capitals: the
\* dialog is closed, its form still holds what was submitted.
C27_Witness ==
    /\ ~addMeetingOpen
    /\ addMeetingForm.link = ToUpperCase(Code1)
    /\ addMeetingForm.platform = "Google Meet"
    /\ meetings[1].id \in ManualIds
    /\ meetings[1].title = <<"S","t","a","n","d","u","p">>
    /\ meetings[1].joinUrl = MeetUrlBase \o <<"/">> \o Code1
    /\ meetings[1].meetUrl = meetings[1].joinUrl
    /\ Len(meetings) = Len(initialMeetings) + 1

\* The places of the list that hold the meeting with this id.
PlacesOf(id) == {i \in 1..Len(meetings) : meetings[i].id = id}

\* C28: each imported calendar id, gcal_101 and gcal_102, is in the meetings list
\* at most once, whatever syncs, manual additions and auto-join toggles came
\* before; and a sync whose timer fires when both ids are in the list leaves
\* the list as it was.
C28_SyncNeverDuplicates ==
    /\ [](\A id \in {"gcal_101", "gcal_102"} : Cardinality(PlacesOf(id)) <= 1)
    /\ [][(SyncTimerFires /\ {"gcal_101", "gcal_102"} \subseteq MeetingIds(meetings))
            => meetings' = meetings]_vars

\* Both calendar meetings are in the list once, below a meeting added by hand
\* after the import; one auto-join flag was toggled, and a further sync is under way.
C28_Witness ==
    /\ meetings[1].id \in ManualIds
    /\ meetings[2].id = "gcal_101" /\ meetings[3].id = "gcal_102"
    /\ Cardinality(PlacesOf("gcal_101")) = 1
    /\ Cardinality(PlacesOf("gcal_102")) = 1
    /\ meetings[2].autoJoin # meetings[3].autoJoin
    /\ syncing /\ Len(syncTimers) = 1
    /\ lastSyncedAt = MaxTime

\* C29: syncNow with Google disconnected or calendar sync off starts nothing:
\* meetings, syncing and lastSyncedAt stay and no timer is set.  With both on it
\* sets syncing and one timer; when a timer fires, both calendar meetings are in
\* the list and syncing is false, whatever googleConnected and calendarSyncEnabled
\* are by then.  No sync starts while another is under way.
C29_SyncGuardedAtStart ==
    /\ [][(SyncNow /\ (~googleConnected \/ ~calendarSyncEnabled))
            => UNCHANGED <<meetings, syncing, lastSyncedAt, syncTimers>>]_vars
    /\ [][(SyncNow /\ googleConnected /\ calendarSyncEnabled)
            => (/\ syncing' = TRUE
                /\ Len(syncTimers') = Len(syncTimers) + 1
                /\ UNCHANGED <<meetings, lastSyncedAt>>)]_vars
    /\ [][(SyncTimerFires /\ syncTimers # <<>> /\ Len(syncTimers') < Len(syncTimers))
            => (/\ syncing' = FALSE
                /\ {"gcal_101", "gcal_102"} \subseteq MeetingIds(meetings')
                /\ lastSyncedAt' >= lastSyncedAt)]_vars
    /\ [](syncing = (syncTimers # <<>>))
    /\ [](Len(syncTimers) <= 1)

\* A sync is under way, nothing is imported yet, and since it started Google was
\* disconnected and calendar sync was switched off.
C29_Witness ==
    /\ syncing /\ Len(syncTimers) = 1
    /\ ~googleConnected
    /\ ~calendarSyncEnabled
    /\ "gcal_101" \notin MeetingIds(meetings)

\* C30: meetParsed and meetLinkError are never both set; validateMeetLink sets
\* meetParsed to parseGoogleMeet of the field as it is then, and the error exactly
\* when that is null; disconnectGoogle clears both; so meetParsed is always null or
\* a result of the resolver, and Test Join opens nothing else than its url.
C30_TesterConsistent ==
    /\ [](~(meetParsed # Null /\ meetLinkError # NoError))
    /\ [](meetParsed # Null => \E v \in MeetTyped : meetParsed = parseGoogleMeet(v))
    /\ [][ValidateMeetLink
            => (/\ meetParsed' = parseGoogleMeet(meetLink)
                /\ (meetLinkError' = NoError) = (meetParsed' # Null))]_vars
    /\ [][DisconnectGoogle => (meetParsed' = Null /\ meetLinkError' = NoError)]_vars
    /\ [][TestJoin
            => (\/ (meetParsed = Null /\ openedUrl' = openedUrl)
                \/ \E v \in MeetTyped :
                      /\ parseGoogleMeet(v) # Null
                      /\ openedUrl' = parseGoogleMeet(v).url)]_vars

\* A lookup link was validated and opened with Test Join, and the field was then
\* overwritten with a text that is no link.
C30_Witness ==
    /\ meetParsed = LookupResult(<<"T","o","k">>)
    /\ openedUrl = meetParsed.url
    /\ meetLink = <<"n","o","t"," ","a"," ","l","i","n","k">>
    /\ meetLinkError = NoError

====
